---- MODULE Spec2Model ----
(***************************************************************************)
(* Generation orchestration of the text-to-video backend: the /generate   *)
(* handler, VideoGenerator.generate_video, the worker thread               *)
(* VideoGenerator._generate_thread with its Local -> Cloud -> Placeholder  *)
(* fallback chain, and the VideoStorage calls the worker makes.            *)
(*                                                                         *)
(* Python values are modelled as follows.                                  *)
(*   dict            a function whose domain is the set of keys present    *)
(*   Optional[T]     None is <<>>, a value v is <<v>>                      *)
(*   str             a sequence of strings: one character each for a       *)
(*                   prompt or a token, so that strip() and startswith()   *)
(*                   are computed; the parts of the f-string for an error  *)
(*                   message, so that "" is the empty sequence             *)
(*   dict key,       a TLA+ string                                         *)
(*   status, message                                                       *)
(*   list of frames  its length (the pixel content never decides a branch  *)
(*                   of the orchestration)                                 *)
(*   uuid4()         the next unused natural number                        *)
(***************************************************************************)
EXTENDS Integers, Sequences, FiniteSets, TLC

VARIABLES
    generation_status,  \* VideoGenerator.generation_status: job_id -> dict
    metadata,           \* VideoStorage.metadata: video_id -> record
    files,              \* artifact directories on disk: video_id -> contents
    threads,            \* one worker thread per started job: job_id -> locals
    model_files,        \* local model storage: repo_id -> has a visible file
    uuids,              \* number of uuid4() values drawn so far
    handled,            \* number of POST /generate requests handled so far
    request,            \* the /generate request handled last (None at start)
    result,             \* what that request returned (None at start)
    download_progress,  \* LocalModelRegistry.download_progress: download_id -> dict
    downloads,          \* the download threads started, in order: their locals
    model_sizes,        \* local model storage: repo_id -> bytes of all its files
    now,                \* time.time() in milliseconds
    dl_handled,         \* number of POST /models/local/download requests handled
    dl_result,          \* what the last of them returned (None at start)
    pipeline_cache,     \* _PIPELINE_CACHE: (model key, device) -> pipeline instance
    pipeline_loads,     \* the cache keys loaded by from_pretrained, in order: the
                        \* instance made by the i-th load is i
    pipeline_calls,     \* calls of _get_pipeline followed step by step: their locals
    frame,              \* the frame handed to _ensure_pil_image (None: no call)
    image,              \* what the call returned or raised (None: not yet)
    extraction,         \* one call of extract_frames_from_video: the container
                        \* read, the writes' outcomes, what the call wrote
    local_call          \* one call of generate_local_video from the pipeline
                        \* on: its arguments, the calls of the pipeline, its end

\* LocalModelRegistry and its endpoint: untouched by the generation service
registry == <<download_progress, downloads, model_sizes, now, dl_handled, dl_result>>

\* local_pipelines.py: the pipeline cache and what is known of its callers
pipelines == <<pipeline_cache, pipeline_loads, pipeline_calls>>

\* local_pipelines.py: one call of _ensure_pil_image
normalizer == <<frame, image>>

\* storage.py and local_pipelines.py: one call followed on its own
calls == <<extraction, local_call>>

vars == <<generation_status, metadata, files, threads, model_files, uuids,
          handled, request, result, registry, pipelines, normalizer, calls>>

----------------------------------------------------------------------------
(* Bounds of the model *)

MaxRequests == 1        \* POST /generate requests handled in one behaviour
MaxLocalFrames == 2     \* frames a local pipeline returns: 1..MaxLocalFrames
MaxVideoFrames == 2     \* frames decoded from a cloud video: 0..MaxVideoFrames
MaxDownloads == 1       \* POST /models/local/download requests handled
MaxChecks == 1          \* ticks of the progress sampler of one download
MaxFiles == 1           \* files in one model directory
MaxCalls == 2           \* calls of _get_pipeline in one behaviour
MaxStarts == 2          \* calls of start_download when the lookups are studied
MaxSide == 5            \* length of an axis of one frame: 1..MaxSide
MaxBatch == 2           \* axes a pipeline puts before the axes of a frame
MaxDecoded == 4         \* frames of the container one extraction reads

----------------------------------------------------------------------------
(* Optional values and strings *)

None == <<>>
Some(v) == <<v>>
Val(o) == o[1]

\* str.strip(): remove leading and trailing whitespace
Whitespace == {" ", "\t", "\n"}

RECURSIVE LStrip(_)
LStrip(s) ==
    IF s # <<>> /\ Head(s) \in Whitespace THEN LStrip(Tail(s)) ELSE s

RECURSIVE RStrip(_)
RStrip(s) ==
    IF s # <<>> /\ s[Len(s)] \in Whitespace
    THEN RStrip(SubSeq(s, 1, Len(s) - 1))
    ELSE s

Strip(s) == RStrip(LStrip(s))

\* str.startswith(prefix)
StartsWith(s, prefix) ==
    /\ Len(s) >= Len(prefix)
    /\ SubSeq(s, 1, Len(prefix)) = prefix

\* truthiness of an Optional[str]: neither None nor the empty string
Truthy(o) == o # None /\ Val(o) # <<>>

Min(a, b) == IF a <= b THEN a ELSE b
Max(a, b) == IF a >= b THEN a ELSE b

----------------------------------------------------------------------------
(* Inputs of the model *)

Prompts == { <<>>, <<" ">>, <<" ", "a">> }

\* <<width, height, num_frames, fps>> as sent by the caller
Dims == { <<133, 2000, 2, 0>> }

Tokens == { None, Some(<<"h", "f", "_", "x">>), Some(<<"x">>) }

LocalKeys == { None, Some(<<"zeroscope-local">>), Some(<<"bogus">>) }

Requests ==
    [ prompt : Prompts, dims : Dims, use_hf_api : BOOLEAN,
      hf_token : Tokens, local_model_key : LocalKeys ]

----------------------------------------------------------------------------
(* local_pipelines.py *)

LOCAL_MODEL_REPOS ==
    [ k \in {"zeroscope-local", "modelscope-local"} |->
        IF k = "zeroscope-local"
        THEN "cerspense/zeroscope_v2_576w"
        ELSE "ali-vilab/modelscope-damo-text-to-video-synthesis" ]

Repos == { LOCAL_MODEL_REPOS[k] : k \in DOMAIN LOCAL_MODEL_REPOS }

\* dict.get on a one-part key string
resolve_local_repo_id(local_model_key) ==
    IF Len(local_model_key) = 1 /\ local_model_key[1] \in DOMAIN LOCAL_MODEL_REPOS
    THEN Some(LOCAL_MODEL_REPOS[local_model_key[1]])
    ELSE None

\* LocalModelRegistry.is_downloaded: some file exists in the model directory
is_downloaded(repo_id) == model_files[repo_id]

----------------------------------------------------------------------------
(* storage.py: VideoStorage *)

EmptyDict == [k \in {} |-> None]

EmptyDir == [frames |-> 0, output |-> FALSE, thumbnail |-> FALSE]

\* as create_video_entry_record, with the requested frame count stored at once
create_video_entry_record_Counted(video_id, params) ==
    [id |-> video_id, frame_count |-> params.num_frames, params |-> params]

\* create_video_entry, the path on which nothing raised: the record with
\* frame_count 0 is stored under the fresh id and its directory is made
create_video_entry_record(video_id, params) ==
    [id |-> video_id, frame_count |-> 0, params |-> params]

\* update_video_frames: False when the record is gone, else the count is set
update_video_frames(md, video_id, frame_count) ==
    IF video_id \notin DOMAIN md
    THEN md
    ELSE [md EXCEPT ![video_id].frame_count = frame_count]

\* DELETE /videos/{video_id}, main.py lines 153-157, and delete_video, lines
\* 87-100: the record is deleted and the metadata saved before the directory
\* is looked at; shutil.rmtree removes the directory or raises, and whatever
\* raises is answered False, which the endpoint answers 404
delete_video(video_id) ==
    /\ request' = Some([delete |-> video_id])
    /\ IF video_id \notin DOMAIN metadata
       THEN /\ result' = Some([status_code |-> 404,
                   detail |-> "Video not found or already deleted"])
            /\ UNCHANGED <<metadata, files>>
       ELSE /\ metadata' = [v \in DOMAIN metadata \ {video_id} |-> metadata[v]]
            /\ IF video_id \notin DOMAIN files
               THEN /\ result' = Some([ok |-> TRUE, id |-> video_id])
                    /\ UNCHANGED files
               ELSE \E removed \in BOOLEAN :
                       IF removed
                       THEN /\ files' = [v \in DOMAIN files \ {video_id} |-> files[v]]
                            /\ result' = Some([ok |-> TRUE, id |-> video_id])
                       ELSE /\ result' = Some([status_code |-> 404,
                                   detail |-> "Video not found or already deleted"])
                            /\ UNCHANGED files
    /\ UNCHANGED <<generation_status, threads, model_files, uuids, handled,
                   registry, pipelines, normalizer, calls>>

\* _create_video_file(video_dir, frames, fps): returns at once when frames is
\* None or empty; otherwise the container is written when a frame is usable
create_video_file(frames, usable) ==
    IF frames = None \/ Val(frames) = 0 THEN FALSE ELSE usable

\* Python 3 round() of the quotient a / b of positive integers: half to even
RoundDiv(a, b) ==
    LET q == a \div b
        r == a % b
    IN  IF 2 * r < b THEN q
        ELSE IF 2 * r > b THEN q + 1
        ELSE IF q % 2 = 0 THEN q ELSE q + 1

\* as ExtractStep, with the quotient cut off in place of rounded
ExtractStep_Floor(fps_src, fps) == Max(1, fps_src \div fps)

\* extract_frames_from_video: the sampling stride
ExtractStep(fps_src, fps) == Max(1, RoundDiv(fps_src, fps))

\* extract_frames_from_video: decoded frames idx in 0..n-1 with idx % step = 0
ExtractedCount(n, step) == Cardinality({ idx \in 0 .. (n - 1) : idx % step = 0 })

\* _create_video_file, lines 127-138: the container cv2.VideoWriter makes of
\* n frames written at the rate fps
VideoWriter(n, fps) ==
    [frames |-> n, cap_fps |-> fps, opened |-> TRUE,
     outcome |-> [idx \in 0 .. (n - 1) |-> "written"]]

\* extract_frames_from_video, lines 208-219: the read loop from the decoded
\* frame idx on. names[k] is what the file frame_{k-1:04d}.png holds: the
\* index of a decoded frame, or None when cv2.imwrite returned False and left
\* no file; an imwrite that raised is passed over with the counter unchanged
RECURSIVE extract_loop(_, _, _, _)
extract_loop(video, step, idx, names) ==
    IF idx >= video.frames THEN names
    ELSE IF idx % step # 0 \/ video.outcome[idx] = "raised"
    THEN extract_loop(video, step, idx + 1, names)
    ELSE extract_loop(video, step, idx + 1,
             Append(names, IF video.outcome[idx] = "written" THEN Some(idx) ELSE None))

\* extract_frames_from_video(video_dir, fps): fps 0 stands for None; the
\* count returned is the length of the result
extract_frames_from_video(video, fps) ==
    IF ~video.opened
    THEN <<>>
    ELSE LET fps_src == IF video.cap_fps = 0 THEN 8 ELSE video.cap_fps
         IN  extract_loop(video, ExtractStep(fps_src, IF fps = 0 THEN fps_src ELSE fps),
                          0, <<>>)

----------------------------------------------------------------------------
(* generator.py: VideoGenerator *)

\* VideoGenerator.hf_token: set to None by __init__; set_hf_token has no caller
self_hf_token == None

\* as update_generation_status, storing kwargs in place of the updated dict
update_generation_status_Replace(gs, job_id, kwargs) == (job_id :> kwargs) @@ gs

\* _update_generation_status: status = table.get(job_id, {}); status.update(kwargs)
update_generation_status(gs, job_id, kwargs) ==
    LET status == IF job_id \in DOMAIN gs THEN gs[job_id] ELSE EmptyDict
    IN  (job_id :> (kwargs @@ status)) @@ gs

\* as ClampWidth, without the rounding down to a multiple of 8
ClampWidth_NoRound(width) == Max(128, Min(width, 1920))

\* generate_video, lines 57-60
ClampWidth(width) == (Max(128, Min(width, 1920)) \div 8) * 8
ClampHeight(height) == (Max(128, Min(height, 1080)) \div 8) * 8
ClampFrames(num_frames) == Max(1, Min(num_frames, 120))
ClampFps(fps) == Max(1, Min(fps, 60))

\* generate_video, lines 57-60: the request with width, height, num_frames
\* and fps replaced by their clamped values
Clamped(req) ==
    [req EXCEPT !.dims = << ClampWidth(req.dims[1]), ClampHeight(req.dims[2]),
                            ClampFrames(req.dims[3]), ClampFps(req.dims[4]) >>]

\* generate_video, lines 62-75: the params stored in the VideoRecord, built
\* from the clamped values (negative_prompt, num_inference_steps,
\* guidance_scale, seed and hf_model_repo are passed through unread by the
\* orchestration)
Params(c) ==
    [ prompt |-> c.prompt,
      num_frames |-> c.dims[3],
      fps |-> c.dims[4],
      width |-> c.dims[1],
      height |-> c.dims[2],
      local_model_key |-> c.local_model_key,
      use_hf_api |-> c.use_hf_api ]

\* generate_video, lines 91-111: the arguments of the started
\* _generate_thread, with its locals before its first statement; requests
\* logs the endpoints posted to, responses what requests.post gave for each,
\* and backends the backends invoked, in order
NewThread(video_id, c) ==
    [ pc |-> "start",
      video_id |-> video_id,
      prompt |-> c.prompt,
      num_frames |-> c.dims[3],
      fps |-> c.dims[4],
      width |-> c.dims[1],
      height |-> c.dims[2],
      use_hf_api |-> c.use_hf_api,
      hf_token |-> c.hf_token,
      local_model_key |-> c.local_model_key,
      frames |-> None,
      local_error |-> None,
      requests |-> <<>>,
      responses |-> <<>>,
      saved |-> 0,
      backends |-> <<>> ]

\* as IsBlank, with the strip() forgotten
IsBlank_NoStrip(prompt) == prompt = <<>>

\* generate_video: the prompt test of line 53
IsBlank(prompt) == prompt = <<>> \/ Strip(prompt) = <<>>

\* as StorageInitFailed, with the job left pending
StorageInitFailed_Pending(job_id) ==
    /\ generation_status' = update_generation_status(generation_status, job_id,
           [status |-> "pending", progress |-> 0, message |-> "Queued for processing"])
    /\ result' = Some([job_id |-> job_id, status |-> "pending"])
    /\ UNCHANGED <<metadata, files, threads>>

\* generate_video, lines 77-80: create_video_entry returned None
StorageInitFailed(job_id) ==
    /\ generation_status' = update_generation_status(generation_status, job_id,
           [status |-> "failed", error |-> <<"storage init failed">>])
    /\ result' = Some([job_id |-> job_id, status |-> "failed"])
    /\ UNCHANGED <<metadata, files, threads>>

\* generate_video(req): one call, with its three ways out
generate_video(req) ==
    LET job_id == uuids + 1
        video_id == uuids + 2
    IN  IF IsBlank(req.prompt)
        THEN /\ generation_status' = update_generation_status(generation_status, job_id,
                    [status |-> "failed", error |-> <<"Empty prompt">>])
             /\ result' = Some([job_id |-> job_id, status |-> "failed"])
             /\ uuids' = uuids + 1
             /\ UNCHANGED <<metadata, files, threads>>
        ELSE \E created \in BOOLEAN :
             /\ uuids' = uuids + 2
             /\ IF ~created
                THEN StorageInitFailed(job_id)
                ELSE /\ metadata' = (video_id :> create_video_entry_record(video_id, Params(Clamped(req))))
                                        @@ metadata
                     /\ files' = (video_id :> EmptyDir) @@ files
                     /\ generation_status' = update_generation_status(generation_status, job_id,
                            [status |-> "pending", progress |-> 0, video_id |-> video_id,
                             message |-> "Queued for processing"])
                     /\ threads' = (job_id :> NewThread(video_id, Clamped(req))) @@ threads
                     /\ result' = Some([job_id |-> job_id, status |-> "pending",
                                        video_id |-> video_id])

----------------------------------------------------------------------------
(* main.py: POST /generate *)

\* as TokenRequired, with the check left to the worker
TokenRequired_Never(req) == FALSE

\* line 88: cloud generation asked for without a token
TokenRequired(req) == req.use_hf_api /\ ~Truthy(req.hf_token)

generate(req) ==
    /\ handled < MaxRequests
    /\ handled' = handled + 1
    /\ request' = Some(req)
    /\ UNCHANGED <<model_files, registry, pipelines, normalizer, calls>>
    /\ IF TokenRequired(req)
       THEN /\ result' = Some([status_code |-> 400,
                    detail |-> "Hugging Face token required for cloud generation"])
            /\ UNCHANGED <<generation_status, metadata, files, threads, uuids>>
       ELSE generate_video(req)

\* as get_status, answering only for a job that has ended
get_status_TerminalOnly(job_id) ==
    IF job_id \notin DOMAIN generation_status
          \/ generation_status[job_id].status \notin {"completed", "failed"}
    THEN [status_code |-> 404, detail |-> "Job not found"]
    ELSE generation_status[job_id]

\* GET /status/{job_id}, main.py lines 110-116: the record, or 404 when
\* there is none or it is empty
get_status(job_id) ==
    IF job_id \notin DOMAIN generation_status \/ generation_status[job_id] = EmptyDict
    THEN [status_code |-> 404, detail |-> "Job not found"]
    ELSE generation_status[job_id]

----------------------------------------------------------------------------
(* generator.py: the backends called by _generate_thread *)

Return(v) == [kind |-> "return", value |-> v]
Raise(msg) == [kind |-> "raise", error |-> msg]

\* what a loaded pipeline can raise: an exception with a message, or one
\* whose str() is empty (a bare assert or raise inside the library)
PipelineErrors ==
    { <<"Local pipelines require 'torch' and 'diffusers' to be installed.">>, <<>> }

\* generate_local_video: a non-empty list of frames, or an exception
generate_local_video ==
    { Return(Some(n)) : n \in 1 .. MaxLocalFrames }
        \cup { Raise(m) : m \in PipelineErrors }

\* _generate_with_local_model(local_model_key, ...): its possible outcomes
generate_with_local_model(local_model_key) ==
    LET repo_id == resolve_local_repo_id(local_model_key)
    IN  IF repo_id = None
        THEN { Raise(<<"Unknown local model key: ">> \o local_model_key) }
        ELSE IF ~is_downloaded(Val(repo_id))
        THEN { Raise(<<"Local model '", Val(repo_id),
                       "' is not downloaded. Trigger a download from the UI before using it.">>) }
        ELSE generate_local_video

\* a or b
Or(a, b) == IF Truthy(a) THEN a ELSE b

\* as InvalidToken, testing only that a token is there
InvalidToken_NoFormat(token) == ~Truthy(token)

\* _generate_with_hf_api, line 248: the format check of the token
InvalidToken(token) == ~Truthy(token) \/ ~StartsWith(Val(token), <<"h", "f", "_">>)

\* what requests.post can give: a response, or an exception (timeout)
Responses ==
    { [status |-> 200, ctype |-> "video/mp4", text |-> "<mp4>", error |-> None],
      [status |-> 200, ctype |-> "application/json", text |-> "[]", error |-> None],
      [status |-> 404, ctype |-> "text/plain", text |-> "Not Found", error |-> None],
      [status |-> 404, ctype |-> "application/json", text |-> "{error: no model}",
       error |-> Some("no model")],
      [status |-> 503, ctype |-> "application/json", text |-> "{error: loading}",
       error |-> Some("loading")] }

PostOutcomes == Responses \cup { [exception |-> "Read timed out."] }

\* as attempt, with every response that is not a video sent to the fallback
attempt_FallbackOnAny(post) ==
    IF "exception" \in DOMAIN post
    THEN Raise(<<post.exception>>)
    ELSE IF post.status = 200
            /\ post.ctype \in {"video/mp4", "application/octet-stream"}
    THEN Return(Some("video_bytes"))
    ELSE Return(None)

\* _attempt(url, use_root) on the outcome of requests.post: the RuntimeError
\* raised for a JSON error body is raised inside the try whose except
\* swallows it, so the body of the response decides nothing
attempt(post) ==
    IF "exception" \in DOMAIN post
    THEN Raise(<<post.exception>>)
    ELSE IF post.status = 200
            /\ post.ctype \in {"video/mp4", "application/octet-stream"}
    THEN Return(Some("video_bytes"))
    ELSE IF post.status = 404
    THEN Return(None)
    ELSE Raise(<<"HF API error: ", ToString(post.status), ": ", post.text>>)

----------------------------------------------------------------------------
(* generator.py: _generate_thread, one action per step of the worker *)

\* time.time() - started: the clock is not modelled, only that the field is set
Elapsed == "time() - started"

\* as ExceptHandler, with the worker started over after the failure
ExceptHandler_Retry(job_id, th, msg) ==
        /\ generation_status' = update_generation_status(generation_status, job_id,
              [status |-> "failed", error |-> msg, message |-> "Failed",
               elapsed_seconds |-> Elapsed])
        /\ threads' = [threads EXCEPT ![job_id] = [th EXCEPT !.pc = "start"]]

\* the except clause of line 231: the job is marked failed and the thread ends
\* as ExceptHandler, with the error of the Local attempt reported when there
\* was one
ExceptHandler_LocalFirst(job_id, th, msg) ==
        /\ generation_status' = update_generation_status(generation_status, job_id,
              [status |-> "failed",
               error |-> IF th.local_error # None THEN Val(th.local_error) ELSE msg,
               message |-> "Failed", elapsed_seconds |-> Elapsed])
        /\ threads' = [threads EXCEPT ![job_id] = [th EXCEPT !.pc = "done"]]
ExceptHandler(job_id, th, msg) ==
        /\ generation_status' = update_generation_status(generation_status, job_id,
              [status |-> "failed", error |-> msg, message |-> "Failed",
               elapsed_seconds |-> Elapsed])
        /\ threads' = [threads EXCEPT ![job_id] = [th EXCEPT !.pc = "done"]]

\* as AfterLocal, with the test "frames is None" of line 164 dropped
AfterLocal_CloudAnyway(th) ==
    IF th.use_hf_api THEN "cloud_begin"
    ELSE IF th.frames = None THEN "no_cloud"
    ELSE "persist"

\* where the worker goes once step 1 is over: lines 164, 202 and 209
AfterLocal(th) ==
    IF th.frames = None /\ th.use_hf_api THEN "cloud_begin"
    ELSE IF th.frames = None /\ ~th.use_hf_api THEN "no_cloud"
    ELSE "persist"

\* lines 133-141
Prepare(job_id) ==
    LET th == threads[job_id]
    IN  /\ th.pc = "start"
        /\ generation_status' = update_generation_status(generation_status, job_id,
              [status |-> "processing", progress |-> 10, message |-> "Preparing request"])
        /\ threads' = [threads EXCEPT ![job_id].pc =
              IF Truthy(th.local_model_key) THEN "local_begin" ELSE AfterLocal(th)]
        /\ UNCHANGED <<metadata, files, model_files, registry, pipelines, normalizer, calls, uuids, handled, request, result>>

\* lines 143-147
LocalBegin(job_id) ==
    LET th == threads[job_id]
    IN  /\ th.pc = "local_begin"
        /\ generation_status' = update_generation_status(generation_status, job_id,
              [progress |-> 20, message |-> "Loading local model"])
        /\ threads' = [threads EXCEPT ![job_id].pc = "local_run"]
        /\ UNCHANGED <<metadata, files, model_files, registry, pipelines, normalizer, calls, uuids, handled, request, result>>

\* str(device): the device _pick_device_and_dtype picks in this process
Device == "cpu"

\* _get_pipeline, lines 86-88 and 121, run without interruption: the cached
\* instance if there is one, else a new instance, which is cached
get_pipeline(cache, loads, cache_key) ==
    IF cache_key \in DOMAIN cache
    THEN [cache |-> cache, loads |-> loads, pipe |-> cache[cache_key]]
    ELSE [cache |-> (cache_key :> (Len(loads) + 1)) @@ cache,
          loads |-> Append(loads, cache_key),
          pipe |-> Len(loads) + 1]

\* whether _get_pipeline returned in a local attempt with the given outcome:
\* it did when frames came back, it did not when the attempt ended before
\* it or in its import test, and an error without a message comes from the
\* load or from the call of the pipeline
PipelineGot(local_model_key, out) ==
    LET repo_id == resolve_local_repo_id(local_model_key)
    IN  IF repo_id = None THEN {FALSE}
        ELSE IF ~is_downloaded(Val(repo_id)) THEN {FALSE}
        ELSE IF out.kind = "return" THEN {TRUE}
        ELSE IF out.error = <<>> THEN BOOLEAN
        ELSE {FALSE}

\* lines 148-161
LocalRun(job_id) ==
    LET th == threads[job_id]
    IN  /\ th.pc = "local_run"
        /\ \E out \in generate_with_local_model(Val(th.local_model_key)) :
              LET th1 == [th EXCEPT !.backends = Append(@, "local")]
                  th2 == IF out.kind = "return"
                         THEN [th1 EXCEPT !.frames = out.value]
                         ELSE [th1 EXCEPT !.local_error = Some(out.error)]
              IN  /\ threads' = [threads EXCEPT ![job_id] = [th2 EXCEPT !.pc = AfterLocal(th2)]]
                  /\ \E got \in PipelineGot(Val(th.local_model_key), out) :
                        LET after == get_pipeline(pipeline_cache, pipeline_loads,
                                                  <<Val(th.local_model_key), Device>>)
                        IN  IF got
                            THEN /\ pipeline_cache' = after.cache
                                 /\ pipeline_loads' = after.loads
                            ELSE UNCHANGED <<pipeline_cache, pipeline_loads>>
        /\ UNCHANGED <<generation_status, metadata, files, model_files, registry, uuids,
                       handled, request, result, pipeline_calls, normalizer, calls>>

\* as CloudBegin, reporting a progress below the 20 of the local attempt
CloudBegin_Progress15(job_id) ==
    LET th == threads[job_id]
    IN  /\ th.pc = "cloud_begin"
        /\ generation_status' = update_generation_status(generation_status, job_id,
              [progress |-> 15, message |-> "Contacting Hugging Face Inference API"])
        /\ threads' = [threads EXCEPT ![job_id].pc = "hf_api"]
        /\ UNCHANGED <<metadata, files, model_files, registry, pipelines, normalizer, calls, uuids, handled, request, result>>

\* lines 164-172
CloudBegin(job_id) ==
    LET th == threads[job_id]
    IN  /\ th.pc = "cloud_begin"
        /\ generation_status' = update_generation_status(generation_status, job_id,
              [progress |-> 30,
               message |-> IF Truthy(th.local_model_key) /\ Truthy(th.local_error)
                           THEN "Local model unavailable, falling back to Hugging Face"
                           ELSE "Contacting Hugging Face Inference API"])
        /\ threads' = [threads EXCEPT ![job_id].pc = "hf_api"]
        /\ UNCHANGED <<metadata, files, model_files, registry, pipelines, normalizer, calls, uuids, handled, request, result>>

\* lines 174-185 and 248-296: the token check, then the first request is sent
HfApiCall(job_id) ==
    LET th0 == threads[job_id]
        th == [th0 EXCEPT !.backends = Append(@, "cloud")]
        token == Or(th.hf_token, self_hf_token)
    IN  /\ th.pc = "hf_api"
        /\ IF InvalidToken(token)
           THEN ExceptHandler(job_id, th, <<"Invalid Hugging Face API token">>)
           ELSE /\ threads' = [threads EXCEPT ![job_id] =
                      [th EXCEPT !.pc = "hf_root", !.requests = <<"root">>]]
                /\ UNCHANGED generation_status
        /\ UNCHANGED <<metadata, files, model_files, registry, pipelines, normalizer, calls, uuids, handled, request, result>>

\* lines 296-298: the answer of the router root endpoint
HfRootResponse(job_id) ==
    LET th0 == threads[job_id]
    IN  /\ th0.pc = "hf_root"
        /\ \E post \in PostOutcomes :
              LET out == attempt(post)
                  th == [th0 EXCEPT !.responses = Append(@, post)]
              IN  IF out.kind = "raise"
                  THEN ExceptHandler(job_id, th, out.error)
                  ELSE /\ threads' = [threads EXCEPT ![job_id] =
                             IF out.value = None
                             THEN [th EXCEPT !.pc = "hf_models",
                                             !.requests = Append(@, "models")]
                             ELSE [th EXCEPT !.pc = "video_bytes"]]
                       /\ UNCHANGED generation_status
        /\ UNCHANGED <<metadata, files, model_files, registry, pipelines, normalizer, calls, uuids, handled, request, result>>

\* lines 298-301: the answer of the model endpoint
HfModelsResponse(job_id) ==
    LET th0 == threads[job_id]
    IN  /\ th0.pc = "hf_models"
        /\ \E post \in PostOutcomes :
              LET out == attempt(post)
                  th == [th0 EXCEPT !.responses = Append(@, post)]
              IN  IF out.kind = "raise"
                  THEN ExceptHandler(job_id, th, out.error)
                  ELSE IF out.value = None
                  THEN ExceptHandler(job_id, th,
                         <<"HF API error: 404: Not Found (both router root and model endpoints)">>)
                  ELSE /\ threads' = [threads EXCEPT ![job_id] =
                             [th EXCEPT !.pc = "video_bytes"]]
                       /\ UNCHANGED generation_status
        /\ UNCHANGED <<metadata, files, model_files, registry, pipelines, normalizer, calls, uuids, handled, request, result>>

\* lines 186-188
CloudDownload(job_id) ==
    LET th == threads[job_id]
    IN  /\ th.pc = "video_bytes"
        /\ generation_status' = update_generation_status(generation_status, job_id,
              [progress |-> 60, message |-> "Downloading and saving video"])
        /\ threads' = [threads EXCEPT ![job_id].pc = "save_bytes"]
        /\ UNCHANGED <<metadata, files, model_files, registry, pipelines, normalizer, calls, uuids, handled, request, result>>

\* the artifact directory of a video, made by mkdir(exist_ok=True) if absent
Dir(video_id) == IF video_id \in DOMAIN files THEN files[video_id] ELSE EmptyDir

\* lines 189-192: mkdir, then save_video_bytes writes output.mp4 or fails
SaveVideoBytes(job_id) ==
    LET th == threads[job_id]
        v == th.video_id
    IN  /\ th.pc = "save_bytes"
        /\ \E written \in BOOLEAN :
              IF written
              THEN /\ files' = (v :> [Dir(v) EXCEPT !.output = TRUE]) @@ files
                   /\ threads' = [threads EXCEPT ![job_id].pc = "extract_begin"]
                   /\ UNCHANGED generation_status
              ELSE /\ files' = (v :> Dir(v)) @@ files
                   /\ ExceptHandler(job_id, th,
                         <<"Failed to save video file from HF response">>)
        /\ UNCHANGED <<metadata, model_files, registry, pipelines, normalizer, calls, uuids, handled, request, result>>

\* line 193
ExtractBegin(job_id) ==
    LET th == threads[job_id]
    IN  /\ th.pc = "extract_begin"
        /\ generation_status' = update_generation_status(generation_status, job_id,
              [progress |-> 75, message |-> "Extracting frames"])
        /\ threads' = [threads EXCEPT ![job_id].pc = "extract"]
        /\ UNCHANGED <<metadata, files, model_files, registry, pipelines, normalizer, calls, uuids, handled, request, result>>

\* frame rates cap.get(CAP_PROP_FPS) reports: 0 when unknown
SrcFps == {0, 16}

\* lines 194-195 and storage.py 196-228: extract_frames_from_video writes
\* every step-th decoded frame and then tries the thumbnail
Extract(job_id) ==
    LET th == threads[job_id]
        v == th.video_id
    IN  /\ th.pc = "extract"
        /\ \E n \in 0 .. MaxVideoFrames, cap_fps \in SrcFps, thumb \in BOOLEAN :
              LET fps_src == IF cap_fps = 0 THEN 8 ELSE cap_fps
                  step == ExtractStep(fps_src, th.fps)
                  extracted == ExtractedCount(n, step)
              IN  files' = (v :> [Dir(v) EXCEPT
                                   !.frames = Max(@, extracted),
                                   !.thumbnail = @ \/ (extracted > 0 /\ thumb)]) @@ files
        /\ threads' = [threads EXCEPT ![job_id] =
              [th EXCEPT !.frames = None, !.pc = "count"]]
        /\ UNCHANGED <<generation_status, metadata, model_files, registry, pipelines, normalizer, calls, uuids, handled, request, result>>

\* as BubbleLocalError, raising a generic error in place of the local one
BubbleLocalError_Generic(job_id) ==
    LET th == threads[job_id]
    IN  /\ th.pc = "no_cloud"
        /\ Truthy(th.local_error)
        /\ ExceptHandler(job_id, th, <<"Generation failed">>)
        /\ UNCHANGED <<metadata, files, model_files, registry, pipelines, normalizer, calls, uuids, handled, request, result>>

\* lines 202-204: the local error is raised again when there is one
BubbleLocalError(job_id) ==
    LET th == threads[job_id]
    IN  /\ th.pc = "no_cloud"
        /\ Truthy(th.local_error)
        /\ ExceptHandler(job_id, th, Val(th.local_error))
        /\ UNCHANGED <<metadata, files, model_files, registry, pipelines, normalizer, calls, uuids, handled, request, result>>

\* lines 202-206
PlaceholderBegin(job_id) ==
    LET th == threads[job_id]
    IN  /\ th.pc = "no_cloud"
        /\ ~Truthy(th.local_error)
        /\ generation_status' = update_generation_status(generation_status, job_id,
              [progress |-> 30, message |-> "Using placeholder local generator"])
        /\ threads' = [threads EXCEPT ![job_id].pc = "placeholder"]
        /\ UNCHANGED <<metadata, files, model_files, registry, pipelines, normalizer, calls, uuids, handled, request, result>>

\* as create_placeholder_frames, with a motion loop that appends nothing
create_placeholder_frames_Empty(width, height, num_frames, prompt) == Some(0)

\* _create_placeholder_frames, _create_motion_from_base: one frame per index
\* of range(num_frames)
create_placeholder_frames(width, height, num_frames, prompt) == Some(num_frames)

\* line 207
Placeholder(job_id) ==
    LET th == threads[job_id]
    IN  /\ th.pc = "placeholder"
        /\ threads' = [threads EXCEPT ![job_id] =
              [th EXCEPT !.frames = create_placeholder_frames(th.width, th.height,
                                                              th.num_frames, th.prompt),
                         !.backends = Append(@, "placeholder"),
                         !.pc = "persist"]]
        /\ UNCHANGED <<generation_status, metadata, files, model_files, registry, pipelines, normalizer, calls, uuids,
                       handled, request, result>>

\* lines 209-216: the frames were extracted from the saved video
\* as CountSaved, taking the requested number of frames for the saved ones
CountSaved_Requested(job_id) ==
    LET th == threads[job_id]
    IN  /\ th.pc = "count"
        /\ threads' = [threads EXCEPT ![job_id] =
              [th EXCEPT !.saved = th.num_frames, !.pc = "finish"]]
        /\ UNCHANGED <<generation_status, metadata, files, model_files, registry, pipelines, normalizer, calls, uuids,
                       handled, request, result>>
CountSaved(job_id) ==
    LET th == threads[job_id]
        v == th.video_id
        recorded == IF v \in DOMAIN metadata THEN metadata[v].frame_count ELSE 0
        on_disk == IF v \in DOMAIN files THEN files[v].frames ELSE 0
    IN  /\ th.pc = "count"
        /\ threads' = [threads EXCEPT ![job_id] =
              [th EXCEPT !.saved = IF recorded # 0 THEN recorded ELSE on_disk,
                         !.pc = "finish"]]
        /\ UNCHANGED <<generation_status, metadata, files, model_files, registry, pipelines, normalizer, calls, uuids,
                       handled, request, result>>

\* lines 217-220
SaveBegin(job_id) ==
    LET th == threads[job_id]
    IN  /\ th.pc = "persist"
        /\ IF Val(th.frames) = 0
           THEN ExceptHandler(job_id, th, <<"No frames generated">>)
           ELSE /\ generation_status' = update_generation_status(generation_status, job_id,
                      [status |-> "processing", progress |-> 80, message |-> "Saving frames"])
                /\ threads' = [threads EXCEPT ![job_id].pc = "save_frames"]
        /\ UNCHANGED <<metadata, files, model_files, registry, pipelines, normalizer, calls, uuids, handled, request, result>>

\* line 221 and _save_frames, lines 444-491: each frame is written or not,
\* the thumbnail is tried, and _create_video_file is called with frames None
SaveFrames(job_id) ==
    LET th == threads[job_id]
        v == th.video_id
    IN  /\ th.pc = "save_frames"
        /\ \E saved \in 0 .. Val(th.frames), thumb \in BOOLEAN, usable \in BOOLEAN :
              /\ files' = (v :> [Dir(v) EXCEPT
                                   !.frames = Max(@, saved),
                                   !.thumbnail = @ \/ (saved > 0 /\ thumb),
                                   !.output = @ \/ (saved > 0 /\ create_video_file(None, usable))])
                              @@ files
              /\ threads' = [threads EXCEPT ![job_id] =
                    [th EXCEPT !.saved = saved, !.pc = "finish"]]
        /\ UNCHANGED <<generation_status, metadata, model_files, registry, pipelines, normalizer, calls, uuids, handled, request, result>>

\* as Finish, with the progress left where the last step put it
Finish_NoProgress(job_id) ==
    LET th == threads[job_id]
    IN  /\ th.pc = "finish"
        /\ metadata' = update_video_frames(metadata, th.video_id, th.saved)
        /\ generation_status' = update_generation_status(generation_status, job_id,
              [status |-> "completed", message |-> "Completed",
               elapsed_seconds |-> Elapsed])
        /\ threads' = [threads EXCEPT ![job_id].pc = "done"]
        /\ UNCHANGED <<files, model_files, registry, pipelines, normalizer, calls, uuids, handled, request, result>>

\* lines 223-230
Finish(job_id) ==
    LET th == threads[job_id]
    IN  /\ th.pc = "finish"
        /\ metadata' = update_video_frames(metadata, th.video_id, th.saved)
        /\ generation_status' = update_generation_status(generation_status, job_id,
              [status |-> "completed", progress |-> 100, message |-> "Completed",
               elapsed_seconds |-> Elapsed])
        /\ threads' = [threads EXCEPT ![job_id].pc = "done"]
        /\ UNCHANGED <<files, model_files, registry, pipelines, normalizer, calls, uuids, handled, request, result>>

\* every step of the worker of one job
GenerateThread(job_id) ==
    /\ job_id \in DOMAIN threads
    /\ \/ Prepare(job_id)
       \/ LocalBegin(job_id)
       \/ LocalRun(job_id)
       \/ CloudBegin(job_id)
       \/ HfApiCall(job_id)
       \/ HfRootResponse(job_id)
       \/ HfModelsResponse(job_id)
       \/ CloudDownload(job_id)
       \/ SaveVideoBytes(job_id)
       \/ ExtractBegin(job_id)
       \/ Extract(job_id)
       \/ BubbleLocalError(job_id)
       \/ PlaceholderBegin(job_id)
       \/ Placeholder(job_id)
       \/ CountSaved(job_id)
       \/ SaveBegin(job_id)
       \/ SaveFrames(job_id)
       \/ Finish(job_id)

----------------------------------------------------------------------------
(* models.py: LocalModelRegistry.start_download, its download_thread and    *)
(* the update_progress sampler; main.py: POST /models/local/download.       *)
(* Every file of a model directory has the size of one unit, so the bytes   *)
(* of a directory are also its number of files. An error message is the     *)
(* sequence of its parts, and "x in msg" holds when x is one of the parts.  *)

\* _model_dir(repo_id): the directory of a model, named after the repo
model_dir(repo_id) == <<"video-gen-models/", repo_id>>

\* "sub in msg"
Contains(msg, sub) == \E i \in 1 .. Len(msg) : msg[i] = sub

\* str.lower() on the parts that a test of the error handler looks at
LowerPart(part) ==
    CASE part = "Timeout" -> "timeout"
      [] part = "Permission" -> "permission"
      [] part = "Connection" -> "connection"
      [] part = "Unauthorized" -> "unauthorized"
      [] OTHER -> part

\* msg.lower()
Lower(msg) == [i \in 1 .. Len(msg) |-> LowerPart(msg[i])]

\* what snapshot_download raises
DownloadErrors ==
    { <<"401", " Client Error: ", "Unauthorized">>,
      <<"404", " Client Error: ", "Not Found", "; ", "Connection", " closed">>,
      <<>> }

\* what import and mkdir raise at the start of download_thread
SetupErrors ==
    { <<"No module named 'huggingface_hub'">>,
      <<"[Errno 13] ", "Permission", " denied">> }

\* messages of snapshot_download that pass more than one test of the error
\* handler, one test only through lower(), or no test
FailureMessages ==
    { <<"401", " Client Error: ", "Not Found">>,
      <<"Unauthorized", ": ", "Connection", " reset">>,
      <<"404", " after ", "Timeout">>,
      <<"Connection", " refused: ", "Permission", " denied">>,
      <<"Read ", "timeout">>,
      <<"Timeout">>,
      <<"permission", " error">>,
      <<"connection", " refused">>,
      <<"disk full">>,
      <<"Permission", " ", "Timeout", " ", "Not Found", " ", "401">> }

\* as error_details, with the test for the network before the others
error_details_NetworkFirst(error_msg, repo_id) ==
    IF Contains(error_msg, "Connection") \/ Contains(Lower(error_msg), "timeout")
    THEN <<"Network connection error. Please check your internet connection.">>
    ELSE IF Contains(error_msg, "401") \/ Contains(error_msg, "Unauthorized")
    THEN <<"Authentication failed. Please check your Hugging Face token.">>
    ELSE IF Contains(error_msg, "404") \/ Contains(error_msg, "Not Found")
    THEN <<"Model repository '", repo_id, "' not found. Please check the repository ID.">>
    ELSE IF Contains(error_msg, "Permission") \/ Contains(Lower(error_msg), "permission")
    THEN <<"Permission denied. Cannot write to ">> \o model_dir(repo_id)
            \o <<". Please check directory permissions.">>
    ELSE error_msg

\* download_thread, lines 225-233: the message shown for an error
error_details(error_msg, repo_id) ==
    IF Contains(error_msg, "401") \/ Contains(error_msg, "Unauthorized")
    THEN <<"Authentication failed. Please check your Hugging Face token.">>
    ELSE IF Contains(error_msg, "404") \/ Contains(error_msg, "Not Found")
    THEN <<"Model repository '", repo_id, "' not found. Please check the repository ID.">>
    ELSE IF Contains(error_msg, "Connection") \/ Contains(Lower(error_msg), "timeout")
    THEN <<"Network connection error. Please check your internet connection.">>
    ELSE IF Contains(error_msg, "Permission") \/ Contains(Lower(error_msg), "permission")
    THEN <<"Permission denied. Cannot write to ">> \o model_dir(repo_id)
            \o <<". Please check directory permissions.">>
    ELSE error_msg

\* start_download, lines 68-69: the id is the repo and the clock in ms
download_id(repo_id, ms) == <<repo_id, ms>>

\* dict.update on the record of a download, under _progress_lock
update_download(dp, did, kwargs) == (did :> (kwargs @@ dp[did])) @@ dp

\* start_download(repo_id, token) called when the clock shows ms, lines
\* 62-83 and 246-248: the record is stored and the download thread started
start_download(repo_id, ms) ==
        LET did == download_id(repo_id, ms)
        IN  /\ now' = ms
            /\ download_progress' =
                  (did :> [repo_id |-> repo_id, status |-> "downloading", progress |-> 0,
                           message |-> <<"Starting download...">>,
                           downloaded |-> 0, total |-> 0]) @@ download_progress
            /\ downloads' = Append(downloads,
                  [download_id |-> did, repo_id |-> repo_id, pc |-> "begin",
                   initial_size |-> 0, final_size |-> 0,
                   sampler |-> "unstarted", last_size |-> 0, check_count |-> 0,
                   current_size |-> 0])
            /\ dl_result' = Some([ok |-> TRUE, download_id |-> Some(did), repo_id |-> repo_id])

\* time.time() * 1000 when the registry is constructed, without the leading
\* digits that no behaviour changes; the ms of the model counts from there
ClockStart == 1762229998

\* str(n) for n >= 0, one digit a part
RECURSIVE Digits(_)
Digits(n) == IF n < 10 THEN <<n>> ELSE Append(Digits(n \div 10), n % 10)

\* a < b for two strings, as Python compares them
RECURSIVE StrLess(_, _)
StrLess(a, b) ==
    IF b = <<>> THEN FALSE
    ELSE IF a = <<>> THEN TRUE
    ELSE IF Head(a) # Head(b) THEN Head(a) < Head(b)
    ELSE StrLess(Tail(a), Tail(b))

\* the order of two download ids of one repo as strings: after the common
\* prefix of the repo come the digits of the clock
IdLess(d1, d2) ==
    d1[1] = d2[1] /\ StrLess(Digits(ClockStart + d1[2]), Digits(ClockStart + d2[2]))

\* get_download_progress(download_id), lines 250-257: the record stored
\* under the id, which the caller holds by reference, or None
get_download_progress(did) ==
    IF did \in DOMAIN download_progress THEN Some(did) ELSE None

\* as get_download_progress_by_repo, sorting without reverse=True
get_download_progress_by_repo_Ascending(repo_id) ==
    LET matching == { did \in DOMAIN download_progress :
                        download_progress[did].repo_id = repo_id }
    IN  IF matching # {}
        THEN Some(CHOOSE d \in matching : \A e \in matching : e = d \/ IdLess(d, e))
        ELSE None

\* get_download_progress_by_repo(repo_id), lines 259-272: of the records of
\* the repo, the one with the greatest id
get_download_progress_by_repo(repo_id) ==
    LET matching == { did \in DOMAIN download_progress :
                        download_progress[did].repo_id = repo_id }
    IN  IF matching # {}
        THEN Some(CHOOSE d \in matching : \A e \in matching : e = d \/ IdLess(e, d))
        ELSE None

\* a call of start_download when the clock shows ms, from a request for a
\* model that is not downloaded
StartDownload(repo_id, ms) ==
    /\ Len(downloads) < MaxStarts
    /\ ms >= now
    /\ ~is_downloaded(repo_id)
    /\ start_download(repo_id, ms)
    /\ UNCHANGED <<generation_status, metadata, files, threads, model_files, uuids,
                   handled, request, result, model_sizes, dl_handled, pipelines, normalizer, calls>>

\* a call of get_download_progress
LookupById(did) ==
    /\ dl_result' = Some([lookup |-> "download_id", key |-> did,
                          progress |-> get_download_progress(did)])
    /\ UNCHANGED <<generation_status, metadata, files, threads, model_files, uuids,
                   handled, request, result, download_progress, downloads,
                   model_sizes, now, dl_handled, pipelines, normalizer, calls>>

\* a call of get_download_progress_by_repo
LookupByRepo(repo_id) ==
    /\ dl_result' = Some([lookup |-> "repo_id", key |-> <<repo_id>>,
                          progress |-> get_download_progress_by_repo(repo_id)])
    /\ UNCHANGED <<generation_status, metadata, files, threads, model_files, uuids,
                   handled, request, result, download_progress, downloads,
                   model_sizes, now, dl_handled, pipelines, normalizer, calls>>

\* tokens a download request carries
DownloadTokens == {None, Some(<<"h", "f", "_", "x">>)}

\* POST /models/local/download, main.py lines 293-335, handled when the
\* clock shows ms
local_model_download(repo_id, hf_token, ms) ==
    /\ dl_handled < MaxDownloads
    /\ ms >= now
    /\ dl_handled' = dl_handled + 1
    /\ IF is_downloaded(repo_id)
       THEN /\ dl_result' = Some([ok |-> TRUE, download_id |-> None, repo_id |-> repo_id,
                                  already_downloaded |-> TRUE])
            /\ UNCHANGED <<download_progress, downloads, now>>
       ELSE \E whoami \in IF Truthy(hf_token) THEN {200, 401} ELSE {200} :
            IF whoami # 200
            THEN /\ dl_result' = Some([status_code |-> 401,
                                       detail |-> "Invalid Hugging Face token"])
                 /\ UNCHANGED <<download_progress, downloads, now>>
            ELSE start_download(repo_id, ms)
    /\ UNCHANGED <<generation_status, metadata, files, threads, model_files, uuids,
                   handled, request, result, model_sizes, pipelines, normalizer, calls>>

\* what the download actions leave alone
DownloadFrame ==
    UNCHANGED <<generation_status, metadata, files, threads, uuids,
                handled, request, result, now, dl_handled, dl_result, pipelines, normalizer, calls>>

\* as DownloadHandler, with the thread ending on the error without a word
DownloadHandler_Silent(n, th, error_msg) ==
        /\ UNCHANGED download_progress
        /\ downloads' = [downloads EXCEPT ![n] = [th EXCEPT !.pc = "done"]]

\* the except clause of lines 218-243: the download is marked failed and the
\* thread ends
DownloadHandler(n, th, error_msg) ==
    LET details == error_details(error_msg, th.repo_id)
    IN  /\ download_progress' = update_download(download_progress, th.download_id,
              [status |-> "failed", progress |-> 0,
               message |-> <<"Download failed: ">> \o details,
               error |-> details, error_details |-> error_msg])
        /\ downloads' = [downloads EXCEPT ![n] = [th EXCEPT !.pc = "done"]]

\* lines 86-100: the import, mkdir, and the size of what is there already
DownloadBegin(n) ==
    LET th == downloads[n]
    IN  /\ th.pc = "begin"
        /\ \/ /\ downloads' = [downloads EXCEPT ![n] =
                    [th EXCEPT !.pc = "connect",
                               !.initial_size = model_sizes[th.repo_id]]]
              /\ UNCHANGED download_progress
           \/ \E e \in SetupErrors : DownloadHandler(n, th, e)
        /\ UNCHANGED <<model_files, model_sizes>>
        /\ DownloadFrame

\* lines 102-106 and 156-157: progress 5 is stored, then the sampler thread
\* is started, which begins by sleeping
DownloadConnect(n) ==
    LET th == downloads[n]
    IN  /\ th.pc = "connect"
        /\ download_progress' = update_download(download_progress, th.download_id,
              [progress |-> 5, message |-> <<"Connecting to Hugging Face...">>])
        /\ downloads' = [downloads EXCEPT ![n] =
              [th EXCEPT !.pc = "announce", !.sampler = "sleep",
                         !.last_size = th.initial_size, !.check_count = 0]]
        /\ UNCHANGED <<model_files, model_sizes>>
        /\ DownloadFrame

\* lines 160-165
DownloadAnnounce(n) ==
    LET th == downloads[n]
    IN  /\ th.pc = "announce"
        /\ download_progress' = update_download(download_progress, th.download_id,
              [progress |-> 10, message |-> <<"Downloading ", th.repo_id, "...">>])
        /\ downloads' = [downloads EXCEPT ![n].pc = "transfer"]
        /\ UNCHANGED <<model_files, model_sizes>>
        /\ DownloadFrame

\* snapshot_download at work: one more file in the model directory, hidden
\* (under .cache) or visible
TransferWrite(n) ==
    LET th == downloads[n]
    IN  /\ th.pc = "transfer"
        /\ model_sizes[th.repo_id] < MaxFiles
        /\ \E visible \in BOOLEAN :
              model_files' = [model_files EXCEPT ![th.repo_id] = @ \/ visible]
        /\ model_sizes' = [model_sizes EXCEPT ![th.repo_id] = @ + 1]
        /\ UNCHANGED <<download_progress, downloads>>
        /\ DownloadFrame

\* lines 168-180: snapshot_download returns
TransferReturn(n) ==
    LET th == downloads[n]
    IN  /\ th.pc = "transfer"
        /\ downloads' = [downloads EXCEPT ![n].pc = "verify"]
        /\ UNCHANGED <<download_progress, model_files, model_sizes>>
        /\ DownloadFrame

\* lines 168-180 and 218: snapshot_download raises
TransferRaise(n) ==
    LET th == downloads[n]
    IN  /\ th.pc = "transfer"
        /\ \E e \in DownloadErrors : DownloadHandler(n, th, e)
        /\ UNCHANGED <<model_files, model_sizes>>
        /\ DownloadFrame

\* as DownloadVerify, without the test of final_file_count
DownloadVerify_NoCheck(n) ==
    LET th == downloads[n]
    IN  /\ th.pc = "verify"
        /\ downloads' = [downloads EXCEPT ![n] =
              [th EXCEPT !.pc = "complete", !.final_size = model_sizes[th.repo_id]]]
        /\ UNCHANGED download_progress
        /\ UNCHANGED <<model_files, model_sizes>>
        /\ DownloadFrame

\* lines 168-180 and 218: snapshot_download raises one of FailureMessages
TransferFail(n) ==
    LET th == downloads[n]
    IN  /\ th.pc = "transfer"
        /\ \E e \in FailureMessages : DownloadHandler(n, th, e)
        /\ UNCHANGED <<model_files, model_sizes>>
        /\ DownloadFrame

\* lines 185-203: the files of the directory are counted
DownloadVerify(n) ==
    LET th == downloads[n]
        final_file_count == model_sizes[th.repo_id]
    IN  /\ th.pc = "verify"
        /\ IF final_file_count = 0
           THEN DownloadHandler(n, th,
                  <<"Download completed but no files found in ">> \o model_dir(th.repo_id))
           ELSE /\ downloads' = [downloads EXCEPT ![n] =
                      [th EXCEPT !.pc = "complete", !.final_size = model_sizes[th.repo_id]]]
                /\ UNCHANGED download_progress
        /\ UNCHANGED <<model_files, model_sizes>>
        /\ DownloadFrame

\* lines 208-216
DownloadComplete(n) ==
    LET th == downloads[n]
    IN  /\ th.pc = "complete"
        /\ download_progress' = update_download(download_progress, th.download_id,
              [status |-> "completed", progress |-> 100,
               message |-> <<"Download completed (", th.final_size, " files, ",
                             th.final_size, " MB)">>,
               downloaded |-> th.final_size, total |-> th.final_size])
        /\ downloads' = [downloads EXCEPT ![n].pc = "done"]
        /\ UNCHANGED <<model_files, model_sizes>>
        /\ DownloadFrame

\* update_progress, lines 117-123: a tick of the sampler, which ends when
\* the download is no longer downloading
SamplerTick(n) ==
    LET th == downloads[n]
    IN  /\ th.sampler = "sleep"
        /\ th.check_count < MaxChecks
        /\ downloads' = [downloads EXCEPT ![n] =
              [th EXCEPT !.check_count = @ + 1,
                         !.sampler = IF download_progress[th.download_id].status
                                            # "downloading"
                                     THEN "done" ELSE "walk"]]
        /\ UNCHANGED <<download_progress, model_files, model_sizes>>
        /\ DownloadFrame

\* update_progress, lines 126-141: the directory is measured, on top of
\* initial_size, and compared with the last size
SamplerWalk(n) ==
    LET th == downloads[n]
        current_size == th.initial_size + model_sizes[th.repo_id]
    IN  /\ th.sampler = "walk"
        /\ downloads' = [downloads EXCEPT ![n] =
              IF current_size > th.last_size
              THEN [th EXCEPT !.sampler = "update", !.current_size = current_size]
              ELSE [th EXCEPT !.sampler = "sleep"]]
        /\ UNCHANGED <<download_progress, model_files, model_sizes>>
        /\ DownloadFrame

\* update_progress, line 144
estimated_progress(check_count) == Min(95, 10 + (check_count * 2))

\* update_progress, lines 146-153: the estimate is stored, whatever the
\* status has become since the tick (current_size, computed anew by every
\* walk, is cleared)
SamplerUpdate(n) ==
    LET th == downloads[n]
        file_count == th.current_size - th.initial_size
    IN  /\ th.sampler = "update"
        /\ download_progress' = update_download(download_progress, th.download_id,
              [progress |-> estimated_progress(th.check_count),
               downloaded |-> th.current_size,
               message |-> <<"Downloading... ", file_count, " files, ",
                             th.current_size, " MB">>])
        /\ downloads' = [downloads EXCEPT ![n] =
              [th EXCEPT !.sampler = "sleep", !.last_size = th.current_size,
                         !.current_size = 0]]
        /\ UNCHANGED <<model_files, model_sizes>>
        /\ DownloadFrame

\* every step of the download thread n
DownloadThread(n) ==
    /\ n \in DOMAIN downloads
    /\ \/ DownloadBegin(n)
       \/ DownloadConnect(n)
       \/ DownloadAnnounce(n)
       \/ TransferWrite(n)
       \/ TransferReturn(n)
       \/ TransferRaise(n)
       \/ DownloadVerify(n)
       \/ DownloadComplete(n)

\* every step of the sampler of download n
SamplerThread(n) ==
    /\ n \in DOMAIN downloads
    /\ \/ SamplerTick(n)
       \/ SamplerWalk(n)
       \/ SamplerUpdate(n)

----------------------------------------------------------------------------
(* local_pipelines.py: _ensure_pil_image. An ndarray is its dtype, its     *)
(* shape and its elements in row-major order; "float32" stands for the     *)
(* three float dtypes, whose elements are exact multiples of 1/FloatUnit.  *)
(* A PIL image is its mode, its size and its pixels, row after row.        *)

\* the number of elements of an array of the shape
RECURSIVE Size(_)
Size(shape) == IF shape = <<>> THEN 1 ELSE Head(shape) * Size(Tail(shape))

\* arr.ndim
ndim(arr) == Len(arr.shape)

\* np.squeeze(arr): every axis of length 1 is removed
squeeze(arr) == [arr EXCEPT !.shape = SelectSeq(arr.shape, LAMBDA n : n # 1)]

\* arr[i, j, k] of an array of rank 3, counting from 0
At(arr, i, j, k) == arr.data[(((i * arr.shape[2]) + j) * arr.shape[3]) + k + 1]

\* the place <<i, j, k>> of the n-th element of an array of rank 3
Index(shape, n) ==
    << (n - 1) \div (shape[2] * shape[3]),
       ((n - 1) \div shape[3]) % shape[2],
       (n - 1) % shape[3] >>

\* np.stack([arr, arr, arr], axis=-1) of an array of rank 2
stack3(arr) ==
    LET shape == <<arr.shape[1], arr.shape[2], 3>>
    IN  [ dtype |-> arr.dtype, shape |-> shape,
          data |-> [ n \in 1 .. Size(shape) |->
                       LET at == Index(shape, n)
                       IN  arr.data[(at[1] * arr.shape[2]) + at[2] + 1] ] ]

\* np.transpose(arr, (1, 2, 0))
transpose(arr) ==
    LET shape == <<arr.shape[2], arr.shape[3], arr.shape[1]>>
    IN  [ dtype |-> arr.dtype, shape |-> shape,
          data |-> [ n \in 1 .. Size(shape) |->
                       LET at == Index(shape, n)
                       IN  At(arr, at[3], at[1], at[2]) ] ]

\* np.concatenate([arr, arr, arr], axis=2) of an array with one channel
concatenate3(arr) ==
    LET shape == <<arr.shape[1], arr.shape[2], 3>>
    IN  [ dtype |-> arr.dtype, shape |-> shape,
          data |-> [ n \in 1 .. Size(shape) |->
                       LET at == Index(shape, n)
                       IN  At(arr, at[1], at[2], 0) ] ]

\* arr[:, :, :3]
first3(arr) ==
    LET shape == <<arr.shape[1], arr.shape[2], Min(3, arr.shape[3])>>
    IN  [ dtype |-> arr.dtype, shape |-> shape,
          data |-> [ n \in 1 .. Size(shape) |->
                       LET at == Index(shape, n)
                       IN  At(arr, at[1], at[2], at[3]) ] ]

\* arr[0]
first(arr) ==
    [arr EXCEPT !.shape = Tail(arr.shape),
                !.data = SubSeq(arr.data, 1, Size(Tail(arr.shape)))]

\* lines 186-188: the leading axes are taken away until the rank is 3
RECURSIVE reduce(_)
reduce(arr) ==
    IF ndim(arr) > 3
    THEN reduce(IF arr.shape[1] > 1 THEN first(arr)
                ELSE [arr EXCEPT !.shape = Tail(arr.shape)])
    ELSE arr

\* a float element is the whole number of its FloatUnit-ths
FloatUnit == 4

\* arr.min() and arr.max()
ArrayMin(arr) ==
    arr.data[CHOOSE n \in DOMAIN arr.data :
                \A m \in DOMAIN arr.data : arr.data[n] <= arr.data[m]]
ArrayMax(arr) ==
    arr.data[CHOOSE n \in DOMAIN arr.data :
                \A m \in DOMAIN arr.data : arr.data[m] <= arr.data[n]]

\* astype(np.uint8) of the fraction n / d in [0, 255]: the fraction is cut
Truncate(n, d) == n \div d

\* np.clip(x, 0, 255) for an integer
Clip(x) == Max(0, Min(255, x))

\* np.clip(x, 0, 255).astype(np.uint8) for a float
ClipFloat(x) ==
    IF x <= 0 THEN 0 ELSE IF x >= (255 * FloatUnit) THEN 255 ELSE Truncate(x, FloatUnit)

\* lines 194-212: the elements are brought to uint8
to_uint8(arr) ==
    IF arr.dtype = "uint8" THEN arr
    ELSE IF arr.dtype = "float32"
    THEN LET arr_min == ArrayMin(arr)
             arr_max == ArrayMax(arr)
         IN  IF arr_max <= FloatUnit /\ arr_min >= 0
             THEN [ dtype |-> "uint8", shape |-> arr.shape,
                    data |-> [ n \in DOMAIN arr.data |->
                                 Truncate(arr.data[n] * 255, FloatUnit) ] ]
             ELSE IF arr_max <= FloatUnit /\ arr_min >= -FloatUnit
             THEN [ dtype |-> "uint8", shape |-> arr.shape,
                    data |-> [ n \in DOMAIN arr.data |->
                                 Truncate((arr.data[n] + FloatUnit) * 255,
                                          2 * FloatUnit) ] ]
             ELSE [ dtype |-> "uint8", shape |-> arr.shape,
                    data |-> [ n \in DOMAIN arr.data |-> ClipFloat(arr.data[n]) ] ]
    ELSE [ dtype |-> "uint8", shape |-> arr.shape,
           data |-> [ n \in DOMAIN arr.data |-> Clip(arr.data[n]) ] ]

\* Image.fromarray(arr, mode='RGB') of an array (H, W, 3)
fromarray(arr) ==
    [ mode |-> "RGB", size |-> <<arr.shape[2], arr.shape[1]>>, pixels |-> arr.data ]

\* lines 194-221: the conversion to uint8, the final validation, the image
finish(arr0) ==
    LET arr == to_uint8(arr0)
    IN  IF ndim(arr) # 3 \/ arr.shape[3] # 3
        THEN Raise([text |-> "Failed to convert to (H, W, 3) format. Got shape: ",
                    value |-> arr.shape])
        ELSE Return(fromarray(arr))

\* the frame is a PIL image
IsImage(f) == "mode" \in DOMAIN f

\* as FrameError, telling nothing of the frame
FrameError_Bare(f, exc) ==
    [ text |-> "Failed to convert frame to PIL Image.", Type |-> "ndarray",
      Error |-> exc ]

\* lines 222-234: the RuntimeError raised for whatever the try block raised
FrameError(f, exc) ==
    [ text |-> "Failed to convert frame to PIL Image.", Type |-> "ndarray",
      Shape |-> f.shape, Dtype |-> f.dtype, Error |-> exc ]

RECURSIVE ensure_pil_image(_)

\* lines 139-221: the try block of _ensure_pil_image
convert(f) ==
    LET arr == squeeze(f)
    IN  IF ndim(arr) = 2 THEN finish(stack3(arr))
        ELSE IF ndim(arr) = 3
        THEN LET hwc == IF arr.shape[1] \in {1, 3, 4}
                            /\ arr.shape[1] < Min(arr.shape[2], arr.shape[3])
                        THEN transpose(arr) ELSE arr
             IN  IF hwc.shape[3] = 1 THEN finish(concatenate3(hwc))
                 ELSE IF hwc.shape[3] = 4 THEN finish(first3(hwc))
                 ELSE IF hwc.shape[3] # 3
                 THEN Raise([text |-> "Unexpected number of channels: ",
                             value |-> hwc.shape[3]])
                 ELSE finish(hwc)
        ELSE IF ndim(arr) = 4 THEN ensure_pil_image(first(arr))
        ELSE IF ndim(arr) > 4 THEN ensure_pil_image(reduce(arr))
        ELSE Raise([text |-> "Unexpected array dimensionality: ", value |-> ndim(arr)])

\* _ensure_pil_image(frame)
ensure_pil_image(f) ==
    IF IsImage(f) THEN Return(f)
    ELSE LET out == convert(f)
         IN  IF out.kind = "raise" THEN Raise(FrameError(f, out.error)) ELSE out

\* the shapes of one frame: rank 0 to 3
FrameShapes ==
    UNION { [1 .. r -> 1 .. MaxSide] : r \in 0 .. 3 }

\* the leading axes (batch, time) a pipeline puts before a frame
BatchShapes ==
    UNION { [1 .. r -> 1 .. 2] : r \in 0 .. MaxBatch }

\* the array of the shape whose elements all differ, up to the wrap of uint8
Numbered(shape) ==
    [ dtype |-> "uint8", shape |-> shape,
      data |-> [ n \in 1 .. Size(shape) |-> (n - 1) % 256 ] ]

\* the array of the shape filled with the values of fill, over and over
Filled(dtype, shape, fill) ==
    [ dtype |-> dtype, shape |-> shape,
      data |-> [ n \in 1 .. Size(shape) |-> fill[((n - 1) % Len(fill)) + 1] ] ]

\* float elements: -1, -1/2, 0, 1/2, 1, 3/2, 300
FloatValues == { -4, -2, 0, 2, 4, 6, 1200 }

\* elements of the other integer dtypes
IntValues == { -5, 0, 7, 300 }

\* shapes of the float and integer frames
SmallShapes == { <<2, 2>>, <<2, 2, 3>>, <<1, 2, 2, 3>> }

\* the frames handed to _ensure_pil_image
Frames ==
    { Numbered(b \o s) : b \in BatchShapes, s \in FrameShapes }
        \cup { Filled("float32", s, <<u, v>>) : s \in SmallShapes,
                                                u \in FloatValues, v \in FloatValues }
        \cup { Filled("int64", s, <<u, v>>) : s \in SmallShapes,
                                              u \in IntValues, v \in IntValues }
        \cup { [ mode |-> m, size |-> <<2, 2>>, pixels |-> <<0, 1, 2, 3>> ] : m \in {"RGB", "L"} }

\* generate_local_video hands a frame of the pipeline output to
\* _ensure_pil_image
EnsurePilImage ==
    /\ frame # None
    /\ image = None
    /\ image' = Some(ensure_pil_image(Val(frame)))
    /\ UNCHANGED <<generation_status, metadata, files, threads, model_files, uuids,
                   handled, request, result, registry, pipelines, frame, calls>>

----------------------------------------------------------------------------
(* The system *)

Init ==
    /\ generation_status = EmptyDict
    /\ metadata = EmptyDict
    /\ files = EmptyDict
    /\ threads = EmptyDict
    /\ model_files \in [Repos -> BOOLEAN]
    /\ uuids = 0
    /\ handled = 0
    /\ request = None
    /\ result = None
    /\ download_progress = EmptyDict
    /\ downloads = <<>>
    /\ model_sizes = [repo_id \in Repos |-> IF model_files[repo_id] THEN 1 ELSE 0]
    /\ now = 0
    /\ dl_handled = 0
    /\ dl_result = None
    /\ pipeline_cache = EmptyDict
    /\ pipeline_loads = <<>>
    /\ pipeline_calls = <<>>
    /\ frame = None
    /\ image = None
    /\ extraction = None
    /\ local_call = None

Next ==
    \/ \E req \in Requests : generate(req)
    \/ \E job_id \in DOMAIN threads : Prepare(job_id)
    \/ \E job_id \in DOMAIN threads : LocalBegin(job_id)
    \/ \E job_id \in DOMAIN threads : LocalRun(job_id)
    \/ \E job_id \in DOMAIN threads : CloudBegin(job_id)
    \/ \E job_id \in DOMAIN threads : HfApiCall(job_id)
    \/ \E job_id \in DOMAIN threads : HfRootResponse(job_id)
    \/ \E job_id \in DOMAIN threads : HfModelsResponse(job_id)
    \/ \E job_id \in DOMAIN threads : CloudDownload(job_id)
    \/ \E job_id \in DOMAIN threads : SaveVideoBytes(job_id)
    \/ \E job_id \in DOMAIN threads : ExtractBegin(job_id)
    \/ \E job_id \in DOMAIN threads : Extract(job_id)
    \/ \E job_id \in DOMAIN threads : BubbleLocalError(job_id)
    \/ \E job_id \in DOMAIN threads : PlaceholderBegin(job_id)
    \/ \E job_id \in DOMAIN threads : Placeholder(job_id)
    \/ \E job_id \in DOMAIN threads : CountSaved(job_id)
    \/ \E job_id \in DOMAIN threads : SaveBegin(job_id)
    \/ \E job_id \in DOMAIN threads : SaveFrames(job_id)
    \/ \E job_id \in DOMAIN threads : Finish(job_id)

Spec == Init /\ [][Next]_vars

----------------------------------------------------------------------------
(* The system when no request enables the cloud fallback: the steps of the
   worker that such a job can take, and a started thread keeps being
   scheduled until it returns *)

NoCloudRequests == { req \in Requests : ~req.use_hf_api }

NoCloudThread(job_id) ==
    /\ job_id \in DOMAIN threads
    /\ \/ Prepare(job_id)
       \/ LocalBegin(job_id)
       \/ LocalRun(job_id)
       \/ BubbleLocalError(job_id)
       \/ PlaceholderBegin(job_id)
       \/ Placeholder(job_id)
       \/ SaveBegin(job_id)
       \/ SaveFrames(job_id)
       \/ Finish(job_id)

NextNoCloud ==
    \/ \E req \in NoCloudRequests : generate(req)
    \/ \E job_id \in DOMAIN threads : Prepare(job_id)
    \/ \E job_id \in DOMAIN threads : LocalBegin(job_id)
    \/ \E job_id \in DOMAIN threads : LocalRun(job_id)
    \/ \E job_id \in DOMAIN threads : BubbleLocalError(job_id)
    \/ \E job_id \in DOMAIN threads : PlaceholderBegin(job_id)
    \/ \E job_id \in DOMAIN threads : Placeholder(job_id)
    \/ \E job_id \in DOMAIN threads : SaveBegin(job_id)
    \/ \E job_id \in DOMAIN threads : SaveFrames(job_id)
    \/ \E job_id \in DOMAIN threads : Finish(job_id)

FairNoCloud ==
    /\ Init
    /\ [][NextNoCloud]_vars
    /\ \A job_id \in 1 .. (2 * MaxRequests) : WF_vars(NoCloudThread(job_id))

----------------------------------------------------------------------------
(* The clamping of generate_video on its own: requests that differ only in
   width, height, num_frames and fps, one of the four at a time *)

ClampWidths == (-1 .. 1) \cup (126 .. 137) \cup (1911 .. 1922) \cup {5000}
ClampHeights == (-1 .. 1) \cup (126 .. 137) \cup (1071 .. 1082) \cup {5000}
ClampCounts == (-1 .. 2) \cup (119 .. 121)
ClampRates == (-1 .. 2) \cup (59 .. 61)

ClampDims ==
    { <<w, 512, 24, 8>> : w \in ClampWidths }
        \cup { <<512, h, 24, 8>> : h \in ClampHeights }
        \cup { <<512, 512, n, 8>> : n \in ClampCounts }
        \cup { <<512, 512, 24, f>> : f \in ClampRates }

ClampRequests ==
    [ prompt : { <<"a">> }, dims : ClampDims, use_hf_api : {FALSE},
      hf_token : {None}, local_model_key : {None} ]

NextClamp == \E req \in ClampRequests : generate(req)

SpecClamp == Init /\ [][NextClamp]_vars

----------------------------------------------------------------------------
(* The model downloads alone: the directory of a model that is not present *)
(* may hold the hidden files an interrupted download left behind; the      *)
(* requests arrive in different milliseconds                               *)

InitDownload ==
    /\ generation_status = EmptyDict
    /\ metadata = EmptyDict
    /\ files = EmptyDict
    /\ threads = EmptyDict
    /\ \E present \in BOOLEAN, leftover \in BOOLEAN :
          /\ model_files = [repo_id \in Repos |-> present]
          /\ model_sizes = [repo_id \in Repos |-> IF present \/ leftover THEN 1 ELSE 0]
    /\ uuids = 0
    /\ handled = 0
    /\ request = None
    /\ result = None
    /\ download_progress = EmptyDict
    /\ downloads = <<>>
    /\ now = 0
    /\ dl_handled = 0
    /\ dl_result = None
    /\ pipeline_cache = EmptyDict
    /\ pipeline_loads = <<>>
    /\ pipeline_calls = <<>>
    /\ frame = None
    /\ image = None
    /\ extraction = None
    /\ local_call = None

\* the model asked for
DownloadRepos == {"cerspense/zeroscope_v2_576w"}

NextDownload ==
    \/ \E repo_id \in DownloadRepos, hf_token \in DownloadTokens :
          local_model_download(repo_id, hf_token, now + 1)
    \/ \E n \in DOMAIN downloads : DownloadBegin(n)
    \/ \E n \in DOMAIN downloads : DownloadConnect(n)
    \/ \E n \in DOMAIN downloads : DownloadAnnounce(n)
    \/ \E n \in DOMAIN downloads : TransferWrite(n)
    \/ \E n \in DOMAIN downloads : TransferReturn(n)
    \/ \E n \in DOMAIN downloads : TransferRaise(n)
    \/ \E n \in DOMAIN downloads : DownloadVerify(n)
    \/ \E n \in DOMAIN downloads : DownloadComplete(n)
    \/ \E n \in DOMAIN downloads : SamplerTick(n)
    \/ \E n \in DOMAIN downloads : SamplerWalk(n)
    \/ \E n \in DOMAIN downloads : SamplerUpdate(n)

SpecDownload == InitDownload /\ [][NextDownload]_vars

----------------------------------------------------------------------------
(* The worker threads under fair scheduling. The generation service and    *)
(* the model registry share only the model directory, which a job reads    *)
(* once, so a behaviour serves generation requests or download requests.   *)

\* requests that start a worker, over every choice of backends
WorkerRequests ==
    { req \in [ prompt : { <<" ", "a">> }, dims : Dims, use_hf_api : BOOLEAN,
                hf_token : { None, Some(<<"h", "f", "_", "x">>) },
                local_model_key : { None, Some(<<"zeroscope-local">>) } ] :
        req.use_hf_api <=> req.hf_token # None }

NextWorkers ==
    \/ /\ dl_handled = 0
       /\ \E req \in WorkerRequests : generate(req)
    \/ \E job_id \in DOMAIN threads : Prepare(job_id)
    \/ \E job_id \in DOMAIN threads : LocalBegin(job_id)
    \/ \E job_id \in DOMAIN threads : LocalRun(job_id)
    \/ \E job_id \in DOMAIN threads : CloudBegin(job_id)
    \/ \E job_id \in DOMAIN threads : HfApiCall(job_id)
    \/ \E job_id \in DOMAIN threads : HfRootResponse(job_id)
    \/ \E job_id \in DOMAIN threads : HfModelsResponse(job_id)
    \/ \E job_id \in DOMAIN threads : CloudDownload(job_id)
    \/ \E job_id \in DOMAIN threads : SaveVideoBytes(job_id)
    \/ \E job_id \in DOMAIN threads : ExtractBegin(job_id)
    \/ \E job_id \in DOMAIN threads : Extract(job_id)
    \/ \E job_id \in DOMAIN threads : BubbleLocalError(job_id)
    \/ \E job_id \in DOMAIN threads : PlaceholderBegin(job_id)
    \/ \E job_id \in DOMAIN threads : Placeholder(job_id)
    \/ \E job_id \in DOMAIN threads : CountSaved(job_id)
    \/ \E job_id \in DOMAIN threads : SaveBegin(job_id)
    \/ \E job_id \in DOMAIN threads : SaveFrames(job_id)
    \/ \E job_id \in DOMAIN threads : Finish(job_id)
    \/ /\ handled = 0
       /\ \E repo_id \in DownloadRepos, hf_token \in DownloadTokens :
             local_model_download(repo_id, hf_token, now + 1)
    \/ \E n \in DOMAIN downloads : DownloadBegin(n)
    \/ \E n \in DOMAIN downloads : DownloadConnect(n)
    \/ \E n \in DOMAIN downloads : DownloadAnnounce(n)
    \/ \E n \in DOMAIN downloads : TransferWrite(n)
    \/ \E n \in DOMAIN downloads : TransferReturn(n)
    \/ \E n \in DOMAIN downloads : TransferRaise(n)
    \/ \E n \in DOMAIN downloads : DownloadVerify(n)
    \/ \E n \in DOMAIN downloads : DownloadComplete(n)

\* every started job thread and download thread keeps being scheduled; the
\* sampler thread, which writes neither a status nor into a worker, is left
\* asleep
FairWorkers ==
    /\ InitDownload
    /\ [][NextWorkers]_vars
    /\ \A job_id \in 1 .. (2 * MaxRequests) : WF_vars(GenerateThread(job_id))
    /\ \A n \in 1 .. MaxDownloads : WF_vars(DownloadThread(n))

----------------------------------------------------------------------------
(* The download workers and every way they fail: at the import or mkdir,   *)
(* in the transfer with each of FailureMessages, at the verification,      *)
(* with the sampler beside them.                                           *)

NextFailures ==
    \/ \E repo_id \in DownloadRepos, hf_token \in DownloadTokens :
          local_model_download(repo_id, hf_token, now + 1)
    \/ \E n \in DOMAIN downloads : DownloadBegin(n)
    \/ \E n \in DOMAIN downloads : DownloadConnect(n)
    \/ \E n \in DOMAIN downloads : DownloadAnnounce(n)
    \/ \E n \in DOMAIN downloads : TransferWrite(n)
    \/ \E n \in DOMAIN downloads : TransferReturn(n)
    \/ \E n \in DOMAIN downloads : TransferFail(n)
    \/ \E n \in DOMAIN downloads : DownloadVerify(n)
    \/ \E n \in DOMAIN downloads : DownloadComplete(n)
    \/ \E n \in DOMAIN downloads : SamplerTick(n)
    \/ \E n \in DOMAIN downloads : SamplerWalk(n)
    \/ \E n \in DOMAIN downloads : SamplerUpdate(n)

SpecFailures == InitDownload /\ [][NextFailures]_vars

----------------------------------------------------------------------------
(* The download table under several starts, which may fall in the same     *)
(* millisecond, with the lookups. The sampler is left asleep.              *)

\* ids asked for: those of the table and one that was never given
LookupIds == DOMAIN download_progress \cup { download_id("cerspense/zeroscope_v2_576w", -1) }

NextStarts ==
    \/ \E repo_id \in Repos, ms \in {now, now + 1} : StartDownload(repo_id, ms)
    \/ \E did \in LookupIds : LookupById(did)
    \/ \E repo_id \in Repos : LookupByRepo(repo_id)
    \/ \E n \in DOMAIN downloads : DownloadBegin(n)
    \/ \E n \in DOMAIN downloads : DownloadConnect(n)
    \/ \E n \in DOMAIN downloads : DownloadAnnounce(n)
    \/ \E n \in DOMAIN downloads : TransferReturn(n)
    \/ \E n \in DOMAIN downloads : DownloadVerify(n)
    \/ \E n \in DOMAIN downloads : DownloadComplete(n)

SpecStarts == InitDownload /\ [][NextStarts]_vars

----------------------------------------------------------------------------
(* _ensure_pil_image on its own: one frame, one call *)

InitFrames ==
    /\ generation_status = EmptyDict
    /\ metadata = EmptyDict
    /\ files = EmptyDict
    /\ threads = EmptyDict
    /\ model_files = [repo_id \in Repos |-> FALSE]
    /\ model_sizes = [repo_id \in Repos |-> 0]
    /\ uuids = 0
    /\ handled = 0
    /\ request = None
    /\ result = None
    /\ download_progress = EmptyDict
    /\ downloads = <<>>
    /\ now = 0
    /\ dl_handled = 0
    /\ dl_result = None
    /\ pipeline_cache = EmptyDict
    /\ pipeline_loads = <<>>
    /\ pipeline_calls = <<>>
    /\ frame \in { Some(f) : f \in Frames }
    /\ image = None
    /\ extraction = None
    /\ local_call = None

NextFrames == EnsurePilImage

SpecFrames == InitFrames /\ [][NextFrames]_vars

----------------------------------------------------------------------------
(* local_pipelines.py: _get_pipeline step by step, as the job workers that *)
(* are inside generate_local_video at the same time run it; the cache is   *)
(* read and written without a lock                                         *)

\* generate_local_video, line 266: a worker calls _get_pipeline
GetPipelineCall(local_model_key) ==
    /\ Len(pipeline_calls) < MaxCalls
    /\ pipeline_calls' = Append(pipeline_calls,
          [cache_key |-> <<local_model_key, Device>>, pc |-> "check", pipe |-> None])
    /\ UNCHANGED <<pipeline_cache, pipeline_loads>>

\* lines 86-88: the cached instance is returned when there is one
GetPipelineCheck(c) ==
    LET call == pipeline_calls[c]
    IN  /\ call.pc = "check"
        /\ pipeline_calls' = [pipeline_calls EXCEPT ![c] =
              IF call.cache_key \in DOMAIN pipeline_cache
              THEN [call EXCEPT !.pc = "returned",
                                !.pipe = Some(pipeline_cache[call.cache_key])]
              ELSE [call EXCEPT !.pc = "load"]]
        /\ UNCHANGED <<pipeline_cache, pipeline_loads>>

\* lines 90-119: from_pretrained makes a new instance, or the directory is
\* missing or both loads raise
GetPipelineLoad(c) ==
    LET call == pipeline_calls[c]
    IN  /\ call.pc = "load"
        /\ \/ /\ pipeline_loads' = Append(pipeline_loads, call.cache_key)
              /\ pipeline_calls' = [pipeline_calls EXCEPT ![c] =
                    [call EXCEPT !.pc = "insert", !.pipe = Some(Len(pipeline_loads) + 1)]]
           \/ /\ pipeline_calls' = [pipeline_calls EXCEPT ![c].pc = "raised"]
              /\ UNCHANGED pipeline_loads
        /\ UNCHANGED pipeline_cache

\* lines 121-122: the new instance is stored under the key and returned
GetPipelineInsert(c) ==
    LET call == pipeline_calls[c]
    IN  /\ call.pc = "insert"
        /\ pipeline_cache' = (call.cache_key :> Val(call.pipe)) @@ pipeline_cache
        /\ pipeline_calls' = [pipeline_calls EXCEPT ![c].pc = "returned"]
        /\ UNCHANGED pipeline_loads

\* what the calls of _get_pipeline leave alone
CacheFrame ==
    UNCHANGED <<generation_status, metadata, files, threads, model_files, uuids,
                handled, request, result, registry, normalizer, calls>>

NextCache ==
    \/ \E local_model_key \in DOMAIN LOCAL_MODEL_REPOS :
          GetPipelineCall(local_model_key) /\ CacheFrame
    \/ \E c \in DOMAIN pipeline_calls : GetPipelineCheck(c) /\ CacheFrame
    \/ \E c \in DOMAIN pipeline_calls : GetPipelineLoad(c) /\ CacheFrame
    \/ \E c \in DOMAIN pipeline_calls : GetPipelineInsert(c) /\ CacheFrame

SpecCache == Init /\ [][NextCache]_vars

----------------------------------------------------------------------------
(* Videos deleted while their jobs run: the requests that use neither a    *)
(* local model nor the cloud, their workers, and DELETE /videos/{video_id} *)

NextDelete ==
    \/ \E req \in { r \in NoCloudRequests : r.local_model_key = None } : generate(req)
    \/ \E job_id \in DOMAIN threads : Prepare(job_id)
    \/ \E job_id \in DOMAIN threads : PlaceholderBegin(job_id)
    \/ \E job_id \in DOMAIN threads : Placeholder(job_id)
    \/ \E job_id \in DOMAIN threads : SaveBegin(job_id)
    \/ \E job_id \in DOMAIN threads : SaveFrames(job_id)
    \/ \E job_id \in DOMAIN threads : Finish(job_id)
    \/ \E video_id \in 1 .. uuids : delete_video(video_id)

SpecDelete == Init /\ [][NextDelete]_vars

----------------------------------------------------------------------------
(* local_pipelines.py: generate_local_video from the loaded pipeline on,   *)
(* lines 260-299: one call, the pipeline answering each of its calls by    *)
(* frames or by an exception                                               *)

\* lines 260-284: the arguments are clamped and put into common_kwargs; the
\* generator is there when a seed was given and torch made one
common_kwargs(args) ==
    LET kwargs == [prompt |-> args.prompt,
                   negative_prompt |-> IF Truthy(args.negative_prompt)
                                       THEN args.negative_prompt ELSE None,
                   height |-> Max(256, Min(args.height, 576)),
                   width |-> Max(256, Min(args.width, 1024)),
                   num_inference_steps |-> Max(10, Min(args.num_inference_steps, 60)),
                   guidance_scale |-> args.guidance_scale]
    IN  IF args.seed # None /\ args.generator_made
        THEN ("generator" :> Val(args.seed)) @@ kwargs
        ELSE kwargs

\* as call_with_optional_frames, the frame count passed in every call
call_with_optional_frames_Always(kwargs, add_frames, num_frames) ==
    ("num_frames" :> Max(8, Min(num_frames, 48))) @@ kwargs

\* _call_with_optional_frames, lines 289-293: the keyword arguments of the call
call_with_optional_frames(kwargs, add_frames, num_frames) ==
    IF add_frames
    THEN ("num_frames" :> Max(8, Min(num_frames, 48))) @@ kwargs
    ELSE kwargs

\* pipe(**kwargs): what a call of the pipeline can end in, whatever its
\* arguments: frames, a TypeError (an argument the signature does not know,
\* or a type error inside the pipeline), or an exception of another type
pipe(kwargs) ==
    { [kind |-> "return", type |-> "frames", error |-> <<>>],
      [kind |-> "raise", type |-> "TypeError",
       error |-> <<"__call__() got an unexpected keyword argument">>],
      [kind |-> "raise", type |-> "RuntimeError", error |-> <<"CUDA out of memory">>] }

InitLocalCall ==
    /\ generation_status = EmptyDict
    /\ metadata = EmptyDict
    /\ files = EmptyDict
    /\ threads = EmptyDict
    /\ model_files = [repo_id \in Repos |-> FALSE]
    /\ model_sizes = [repo_id \in Repos |-> 0]
    /\ uuids = 0
    /\ handled = 0
    /\ request = None
    /\ result = None
    /\ download_progress = EmptyDict
    /\ downloads = <<>>
    /\ now = 0
    /\ dl_handled = 0
    /\ dl_result = None
    /\ pipeline_cache = EmptyDict
    /\ pipeline_loads = <<>>
    /\ pipeline_calls = <<>>
    /\ frame = None
    /\ image = None
    /\ extraction = None
    /\ \E args \in [ prompt : {<<"a">>},
                     negative_prompt : {None, Some(<<>>), Some(<<"b">>)},
                     num_frames : {1, 16, 100},
                     width : {64, 512},
                     height : {64, 512},
                     num_inference_steps : {25},
                     guidance_scale : {7},
                     seed : {None, Some(42)},
                     generator_made : BOOLEAN ] :
          local_call = Some([args |-> args, pc |-> "call", invocations |-> <<>>,
                             outcomes |-> <<>>, out |-> None])

\* lines 295-296: the first call, with the frame count
LocalCallFirst ==
    /\ local_call # None
    /\ Val(local_call).pc = "call"
    /\ LET c == Val(local_call)
           kwargs == call_with_optional_frames(common_kwargs(c.args), TRUE, c.args.num_frames)
       IN  \E o \in pipe(kwargs) :
              local_call' = Some([c EXCEPT
                  !.invocations = Append(@, kwargs),
                  !.outcomes = Append(@, o),
                  !.pc = IF o.kind = "return" THEN "frames"
                         ELSE IF o.type = "TypeError" THEN "retry" ELSE "raised",
                  !.out = IF o.kind = "raise" /\ o.type = "TypeError" THEN None ELSE Some(o)])
    /\ UNCHANGED <<generation_status, metadata, files, threads, model_files, uuids,
                   handled, request, result, registry, pipelines, normalizer, extraction>>

\* lines 297-299: the call after a TypeError, without the frame count;
\* whatever it raises leaves generate_local_video
LocalCallRetry ==
    /\ local_call # None
    /\ Val(local_call).pc = "retry"
    /\ LET c == Val(local_call)
           kwargs == call_with_optional_frames(common_kwargs(c.args), FALSE, c.args.num_frames)
       IN  \E o \in pipe(kwargs) :
              local_call' = Some([c EXCEPT
                  !.invocations = Append(@, kwargs),
                  !.outcomes = Append(@, o),
                  !.pc = IF o.kind = "return" THEN "frames" ELSE "raised",
                  !.out = Some(o)])
    /\ UNCHANGED <<generation_status, metadata, files, threads, model_files, uuids,
                   handled, request, result, registry, pipelines, normalizer, extraction>>

SpecLocalCall == InitLocalCall /\ [][LocalCallFirst \/ LocalCallRetry]_vars

----------------------------------------------------------------------------
(* extract_frames_from_video on its own: one container, one call *)

InitExtract ==
    /\ generation_status = EmptyDict
    /\ metadata = EmptyDict
    /\ files = EmptyDict
    /\ threads = EmptyDict
    /\ model_files = [repo_id \in Repos |-> FALSE]
    /\ model_sizes = [repo_id \in Repos |-> 0]
    /\ uuids = 0
    /\ handled = 0
    /\ request = None
    /\ result = None
    /\ download_progress = EmptyDict
    /\ downloads = <<>>
    /\ now = 0
    /\ dl_handled = 0
    /\ dl_result = None
    /\ pipeline_cache = EmptyDict
    /\ pipeline_loads = <<>>
    /\ pipeline_calls = <<>>
    /\ frame = None
    /\ image = None
    /\ local_call = None
    /\ \E n \in 0 .. MaxDecoded, fps \in {0, 1, 2, 4, 8, 15, 16, 30} :
          \E video \in { VideoWriter(n, rate) : rate \in {2, 4, 8, 16, 30} }
                    \cup { [frames |-> n, cap_fps |-> rate, opened |-> opened,
                            outcome |-> [idx \in 0 .. (n - 1) |->
                                           IF idx = bad THEN how ELSE "written"]] :
                            rate \in {0, 12, 20, 30}, opened \in BOOLEAN,
                            bad \in -1 .. (n - 1), how \in {"unwritten", "raised"} } :
             extraction = Some([video |-> video, fps |-> fps, names |-> None])

\* the worker, generator.py line 194: the call and what it wrote
ExtractFrames ==
    /\ extraction # None
    /\ Val(extraction).names = None
    /\ extraction' = Some([Val(extraction) EXCEPT !.names =
          Some(extract_frames_from_video(Val(extraction).video, Val(extraction).fps))])
    /\ UNCHANGED <<generation_status, metadata, files, threads, model_files, uuids,
                   handled, request, result, registry, pipelines, normalizer, local_call>>

SpecExtract == InitExtract /\ [][ExtractFrames]_vars

----------------------------------------------------------------------------
(* Properties *)

\* the jobs and threads a behaviour can create
JobIds == 1 .. (2 * MaxRequests)

Range(f) == { f[x] : x \in DOMAIN f }

\* a prompt with no character other than whitespace
WhitespaceOnly(prompt) == \A i \in 1 .. Len(prompt) : prompt[i] \in {" ", "\t", "\n"}

\* the request reached generate_video: it was not rejected for a missing token
Submitted(req) == ~(req.use_hf_api /\ (req.hf_token = None \/ Val(req.hf_token) = <<>>))

\* the step is one call of POST /generate
Handles == handled' = handled + 1

\* C1: every call of generate_video with an empty or whitespace-only prompt
\* records the job directly as failed, returns status failed without a
\* video_id, creates no VideoRecord and starts no worker thread.
C1_EmptyPromptFailsFast ==
    [][ (Handles /\ Submitted(Val(request')) /\ WhitespaceOnly(Val(request').prompt))
        => LET job_id == Val(result').job_id
           IN  /\ DOMAIN Val(result') = {"job_id", "status"}
               /\ Val(result').status = "failed"
               /\ job_id \notin DOMAIN generation_status
               /\ DOMAIN generation_status' = DOMAIN generation_status \cup {job_id}
               /\ generation_status'[job_id].status = "failed"
               /\ "video_id" \notin DOMAIN generation_status'[job_id]
               /\ metadata' = metadata
               /\ files' = files
               /\ threads' = threads ]_vars

\* a whitespace-only prompt that is not the empty string was submitted
C1_Witness ==
    /\ request # None
    /\ Submitted(Val(request))
    /\ Val(request).prompt # <<>>
    /\ WhitespaceOnly(Val(request).prompt)
    /\ Val(result).status = "failed"

InRange(x, lo, hi) == lo <= x /\ x <= hi

ClampedOk(width, height, num_frames, fps) ==
    /\ width % 8 = 0 /\ InRange(width, 128, 1920)
    /\ height % 8 = 0 /\ InRange(height, 128, 1080)
    /\ InRange(num_frames, 1, 120)
    /\ InRange(fps, 1, 60)

\* C2: whatever integers are passed as width, height, num_frames and fps with
\* a non-empty prompt, the VideoRecord and the worker get a width that is a
\* multiple of 8 in [128,1920], a height that is a multiple of 8 in
\* [128,1080], a frame count in [1,120] and an fps in [1,60], and the request
\* is not rejected: it is pending unless the record could not be created.
C2_ClampedToRange ==
    /\ \A v \in DOMAIN metadata :
          LET p == metadata[v].params
          IN  ClampedOk(p.width, p.height, p.num_frames, p.fps)
    /\ \A j \in DOMAIN threads :
          LET th == threads[j]
          IN  ClampedOk(th.width, th.height, th.num_frames, th.fps)
    /\ (request # None /\ Submitted(Val(request)) /\ ~WhitespaceOnly(Val(request).prompt))
          => \/ /\ Val(result).status = "pending"
                /\ Val(result).job_id \in DOMAIN threads
                /\ Val(result).video_id \in DOMAIN metadata
             \/ /\ Val(result).status = "failed"
                /\ generation_status[Val(result).job_id].error = <<"storage init failed">>

\* a width above the range that is not a multiple of 8 was accepted and clamped
C2_Witness ==
    /\ request # None
    /\ Val(request).dims[1] = 1921
    /\ \E j \in DOMAIN threads : threads[j].width = 1920

\* the job asks for neither the cloud nor a local model
PlaceholderOnly(th) == ~th.use_hf_api /\ th.local_model_key = None

\* C3 as stated: a job submitted with a non-empty prompt, cloud fallback
\* disabled and no local model selector never ends in failed.
C3_Original ==
    (/\ request # None
     /\ ~WhitespaceOnly(Val(request).prompt)
     /\ ~Val(request).use_hf_api
     /\ Val(request).local_model_key = None)
        => generation_status[Val(result).job_id].status # "failed"

\* C3, amended: every job whose VideoRecord was created and whose worker was
\* started with cloud fallback disabled and no local model selector is never
\* failed and eventually reaches completed with progress 100, the Placeholder
\* backend being the only backend invoked.
C3_PlaceholderCompletes ==
    /\ [](\A j \in DOMAIN threads :
            PlaceholderOnly(threads[j]) =>
                /\ generation_status[j].status # "failed"
                /\ threads[j].backends \in { <<>>, <<"placeholder">> })
    /\ \A j \in JobIds :
          (j \in DOMAIN threads /\ PlaceholderOnly(threads[j]))
             ~> (/\ j \in DOMAIN threads
                 /\ generation_status[j].status = "completed"
                 /\ generation_status[j].progress = 100
                 /\ threads[j].backends = <<"placeholder">>)

\* a job without cloud and local model completed through the Placeholder
C3_Witness ==
    \E j \in DOMAIN threads :
        /\ PlaceholderOnly(threads[j])
        /\ generation_status[j].status = "completed"
        /\ threads[j].backends = <<"placeholder">>

\* the Local backend failed because the key is unknown or the model absent
LocalStorageError(th) ==
    /\ th.local_error # None
    /\ Len(Val(th.local_error)) > 1
    /\ Val(th.local_error)[1] \in {"Unknown local model key: ", "Local model '"}

\* the job of C4: a selector, no cloud fallback, and a Local failure for an
\* unknown key or an absent model
LocalOnlyFailed(th) ==
    th.local_model_key # None /\ ~th.use_hf_api /\ LocalStorageError(th)

\* C4: when a local model selector is given, the Local backend fails for an
\* unknown key or a model absent from local storage, and cloud fallback is
\* disabled, the job never completes, the Placeholder is not invoked, and the
\* job ends failed with exactly the Local backend's message as its error.
C4_LocalErrorBubbles ==
    /\ [](\A j \in DOMAIN threads :
            LET th == threads[j]
            IN  LocalOnlyFailed(th)
                => /\ generation_status[j].status # "completed"
                   /\ th.backends = <<"local">>
                   /\ th.pc \in {"no_cloud", "done"}
                   /\ th.pc = "done" =>
                         /\ generation_status[j].status = "failed"
                         /\ generation_status[j].error = Val(th.local_error))
    /\ \A j \in JobIds :
          (j \in DOMAIN threads /\ LocalOnlyFailed(threads[j]))
             ~> (/\ j \in DOMAIN threads
                 /\ generation_status[j].status = "failed"
                 /\ generation_status[j].error = Val(threads[j].local_error))

\* a job failed with the message of a model that is not downloaded
C4_Witness ==
    \E j \in DOMAIN threads :
        /\ ~threads[j].use_hf_api
        /\ LocalStorageError(threads[j])
        /\ Val(threads[j].local_error)[1] = "Local model '"
        /\ generation_status[j].status = "failed"
        /\ generation_status[j].error = Val(threads[j].local_error)

\* the request asks for the cloud and carries no token
NoCredential(req) == req.use_hf_api /\ (req.hf_token = None \/ Val(req.hf_token) = <<>>)

\* C5: a request with cloud enabled and no credential is answered with HTTP
\* 400 naming the missing Hugging Face token, and has no side effect: no job
\* is added to the job table, no VideoRecord is created, no worker started.
C5_MissingTokenRejected ==
    [][ (Handles /\ NoCredential(Val(request')))
        => /\ "status_code" \in DOMAIN Val(result')
           /\ Val(result').status_code = 400
           /\ Val(result').detail = "Hugging Face token required for cloud generation"
           /\ generation_status' = generation_status
           /\ metadata' = metadata
           /\ files' = files
           /\ threads' = threads ]_vars

\* a request with cloud enabled, a usable prompt and no token was rejected
C5_Witness ==
    /\ request # None
    /\ NoCredential(Val(request))
    /\ ~WhitespaceOnly(Val(request).prompt)
    /\ "status_code" \in DOMAIN Val(result)
    /\ Val(result).status_code = 400

\* a token that is present but does not start with hf_
Malformed(token) ==
    /\ token # None
    /\ Val(token) # <<>>
    /\ ~(Len(Val(token)) >= 3 /\ Val(token)[1] = "h" /\ Val(token)[2] = "f"
            /\ Val(token)[3] = "_")

\* C6 as stated: a request whose cloud credential is malformed fails fast,
\* creating no VideoRecord and starting no worker thread.
C6_Original ==
    (request # None /\ Val(request).use_hf_api /\ Malformed(Val(request).hf_token))
        => /\ "video_id" \notin DOMAIN Val(result)
           /\ Val(result).job_id \notin DOMAIN threads

\* C6, amended: a malformed credential is not rejected at submission. With a
\* non-empty prompt the request is accepted as pending, with a VideoRecord
\* and a worker, unless the record cannot be created; the worker posts no
\* request with such a token, and once its Cloud attempt has started the job
\* is failed with the error "Invalid Hugging Face API token".
C6_MalformedTokenFailsInWorker ==
    /\ [][ (/\ Handles
            /\ Val(request').use_hf_api
            /\ Malformed(Val(request').hf_token)
            /\ ~WhitespaceOnly(Val(request').prompt))
           => LET res == Val(result')
              IN  \/ /\ res.status = "pending"
                     /\ res.job_id \in DOMAIN threads' \ DOMAIN threads
                     /\ res.video_id \in DOMAIN metadata' \ DOMAIN metadata
                     /\ generation_status'[res.job_id].status = "pending"
                  \/ /\ res.status = "failed"
                     /\ generation_status'[res.job_id].error = <<"storage init failed">>
                     /\ threads' = threads
                     /\ metadata' = metadata ]_vars
    /\ [](\A j \in DOMAIN threads :
            LET th == threads[j]
            IN  Malformed(th.hf_token) =>
                  /\ th.requests = <<>>
                  /\ "cloud" \in Range(th.backends) =>
                        /\ th.pc = "done"
                        /\ generation_status[j].status = "failed"
                        /\ generation_status[j].error = <<"Invalid Hugging Face API token">>)

\* a job with a malformed token was accepted, reached the Cloud backend and failed there
C6_Witness ==
    \E j \in DOMAIN threads :
        /\ Malformed(threads[j].hf_token)
        /\ "cloud" \in Range(threads[j].backends)
        /\ generation_status[j].status = "failed"

\* a local model selector was given
HasSelector(th) == th.local_model_key # None /\ Val(th.local_model_key) # <<>>

\* C7: in a job that asks for a local model and for cloud fallback, the
\* Cloud backend is attempted, and a request posted, only after the Local
\* attempt and only when that attempt raised and left no frames; after a
\* Local attempt that returned frames the Cloud backend is not attempted.
C7_LocalBeforeCloud ==
    \A j \in DOMAIN threads :
        LET th == threads[j]
        IN  (HasSelector(th) /\ th.use_hf_api) =>
              /\ th.requests # <<>> => "cloud" \in Range(th.backends)
              /\ "cloud" \in Range(th.backends) =>
                    /\ th.backends = <<"local", "cloud">>
                    /\ th.local_error # None
              /\ ("local" \in Range(th.backends) /\ th.local_error = None) =>
                    /\ th.frames # None
                    /\ th.backends = <<"local">>
                    /\ th.requests = <<>>

\* the Local attempt failed and a request was then posted to the cloud
C7_Witness ==
    \E j \in DOMAIN threads :
        /\ HasSelector(threads[j])
        /\ threads[j].backends = <<"local", "cloud">>
        /\ threads[j].requests # <<>>

\* C8 as stated: the Placeholder backend is invoked only in a job whose cloud
\* fallback is disabled and whose Local attempt, if any, recorded no error.
C8_Original ==
    \A j \in DOMAIN threads :
        "placeholder" \in Range(threads[j].backends) =>
            /\ ~threads[j].use_hf_api
            /\ threads[j].local_error = None

\* C9: the progress of a job in the job table is an integer in 0..100 and,
\* once set, stays set and never decreases, whatever path the worker takes.
C9_ProgressMonotonic ==
    /\ [](\A j \in DOMAIN generation_status :
            "progress" \in DOMAIN generation_status[j] =>
                generation_status[j].progress \in 0 .. 100)
    /\ [][ \A j \in DOMAIN generation_status :
             "progress" \in DOMAIN generation_status[j] =>
                /\ j \in DOMAIN generation_status'
                /\ "progress" \in DOMAIN generation_status'[j]
                /\ generation_status'[j].progress >= generation_status[j].progress ]_vars

\* a job went Local (20), then Cloud with raw video bytes (30, 60, 75), to 100
C9_Witness ==
    \E j \in DOMAIN threads :
        /\ threads[j].backends = <<"local", "cloud">>
        /\ generation_status[j].progress = 100

Terminal == {"completed", "failed"}

\* C10: a job is created in pending (with its worker) or directly in failed
\* (without one); its status then only moves pending -> processing ->
\* completed or failed; the record of a completed or failed job never
\* changes again; jobs are never removed; and a worker that has returned
\* never runs again, so a terminal job has no running worker.
C10_StatusLifecycle ==
    /\ [](\A j \in DOMAIN generation_status :
            /\ generation_status[j].status \in {"pending", "processing"} \cup Terminal
            /\ generation_status[j].status \in Terminal =>
                  (j \in DOMAIN threads => threads[j].pc = "done")
            /\ generation_status[j].status \notin Terminal =>
                  (j \in DOMAIN threads /\ threads[j].pc # "done"))
    /\ [][ /\ DOMAIN generation_status \subseteq DOMAIN generation_status'
           /\ DOMAIN threads \subseteq DOMAIN threads'
           /\ \A j \in DOMAIN generation_status' :
                 IF j \notin DOMAIN generation_status
                 THEN \/ /\ generation_status'[j].status = "pending"
                         /\ j \in DOMAIN threads'
                      \/ /\ generation_status'[j].status = "failed"
                         /\ j \notin DOMAIN threads'
                 ELSE /\ j \in DOMAIN threads' <=> j \in DOMAIN threads
                      /\ \/ generation_status'[j] = generation_status[j]
                         \/ /\ generation_status[j].status \notin Terminal
                            /\ << generation_status[j].status, generation_status'[j].status >>
                                  \in { <<"pending", "processing">>,
                                        <<"processing", "processing">>,
                                        <<"processing", "completed">>,
                                        <<"processing", "failed">> }
           /\ \A j \in DOMAIN threads :
                 threads[j].pc = "done" => threads'[j] = threads[j] ]_vars

\* a worker ran and ended its job in failed
C10_Witness ==
    \E j \in DOMAIN threads :
        /\ threads[j].pc = "done"
        /\ generation_status[j].status = "failed"

\* C11: the video_id of a job is written once, when the job is created in
\* pending; a job created otherwise has none, and afterwards the field is
\* neither added, removed nor changed, in a terminal job in particular.
C11_VideoIdWrittenOnce ==
    [][ \A j \in DOMAIN generation_status' :
          IF j \notin DOMAIN generation_status
          THEN "video_id" \in DOMAIN generation_status'[j]
                  <=> generation_status'[j].status = "pending"
          ELSE /\ "video_id" \in DOMAIN generation_status'[j]
                      <=> "video_id" \in DOMAIN generation_status[j]
               /\ "video_id" \in DOMAIN generation_status[j] =>
                      generation_status'[j].video_id = generation_status[j].video_id ]_vars

\* a job that was given a video_id has reached completed
C11_Witness ==
    \E j \in DOMAIN generation_status :
        /\ "video_id" \in DOMAIN generation_status[j]
        /\ generation_status[j].status = "completed"

\* C12: a VideoRecord is created with frame count 0; the count is written
\* only by the step of the job's worker that follows the frame-persist or
\* cloud-extract step, which is the worker's last step, so at most once per
\* job; it never exceeds the frames on disk; and the record of a job that
\* failed has frame count 0.
C12_FrameCountAfterPersist ==
    /\ [](\A j \in DOMAIN threads :
            LET v == threads[j].video_id
            IN  v \in DOMAIN metadata =>
                  /\ threads[j].pc # "done" => metadata[v].frame_count = 0
                  /\ generation_status[j].status = "failed" => metadata[v].frame_count = 0
                  /\ metadata[v].frame_count <= files[v].frames)
    /\ [][ \A v \in DOMAIN metadata' :
             IF v \notin DOMAIN metadata
             THEN metadata'[v].frame_count = 0
             ELSE metadata'[v].frame_count # metadata[v].frame_count =>
                    \E j \in DOMAIN threads :
                        /\ threads[j].video_id = v
                        /\ threads[j].pc = "finish"
                        /\ threads'[j].pc = "done"
                        /\ metadata'[v].frame_count = threads[j].saved ]_vars

\* a completed job has a positive frame count, written after the persist step
C12_Witness ==
    \E j \in DOMAIN threads :
        /\ threads[j].pc = "done"
        /\ generation_status[j].status = "completed"
        /\ metadata[threads[j].video_id].frame_count > 0

\* C13: every started worker thread eventually returns having written a
\* terminal status with a message to its own record: a job worker completed
\* or failed in the job table, a download worker completed or failed in the
\* download table, whatever its backends, assembly or transfer raise.
C13_WorkersTerminate ==
    /\ \A j \in JobIds :
          (j \in DOMAIN threads) ~>
              /\ j \in DOMAIN threads
              /\ threads[j].pc = "done"
              /\ generation_status[j].status \in {"completed", "failed"}
              /\ "message" \in DOMAIN generation_status[j]
    /\ \A n \in 1 .. MaxDownloads :
          (n \in DOMAIN downloads) ~>
              /\ n \in DOMAIN downloads
              /\ downloads[n].pc = "done"
              /\ download_progress[downloads[n].download_id].status
                    \in {"completed", "failed"}
              /\ "message" \in DOMAIN download_progress[downloads[n].download_id]

\* a download worker ended failed after its transfer raised, or a job
\* worker ended failed after the cloud raised
C13_Witness ==
    \/ \E n \in DOMAIN downloads :
          /\ downloads[n].pc = "done"
          /\ download_progress[downloads[n].download_id].status = "failed"
          /\ "error_details" \in DOMAIN download_progress[downloads[n].download_id]
          /\ download_progress[downloads[n].download_id].error_details = <<>>
    \/ \E j \in DOMAIN threads :
          /\ threads[j].pc = "done"
          /\ threads[j].requests # <<>>
          /\ generation_status[j].status = "failed"

\* C14 as stated: for every valid request (one with a usable prompt that
\* was not rejected for a missing token) generate_video returns pending.
C14_Original ==
    [][ (Handles /\ Submitted(Val(request')) /\ ~WhitespaceOnly(Val(request').prompt))
        => Val(result').status = "pending" ]_vars

\* C14: a valid request is answered pending exactly when its VideoRecord was
\* created (failed otherwise); a pending answer carries the video_id and is
\* given while the new worker has not taken a step; and from the moment
\* generate_video has returned a job_id, a poll of that job finds a record,
\* which for a pending answer carries the video_id that was returned.
C14_FireAndForget ==
    /\ [][ (Handles /\ Submitted(Val(request')) /\ ~WhitespaceOnly(Val(request').prompt))
           => LET res == Val(result')
                  job_id == res.job_id
              IN  IF uuids + 2 \in DOMAIN metadata'
                  THEN /\ res.status = "pending"
                       /\ res.video_id = uuids + 2
                       /\ job_id \notin DOMAIN threads
                       /\ threads'[job_id].pc = "start"
                       /\ generation_status'[job_id].status = "pending"
                  ELSE res.status = "failed" ]_vars
    /\ [](result # None /\ "job_id" \in DOMAIN Val(result) =>
            LET polled == get_status(Val(result).job_id)
            IN  /\ "status_code" \notin DOMAIN polled
                /\ Val(result).status = "pending" =>
                      /\ "video_id" \in DOMAIN polled
                      /\ polled.video_id = Val(result).video_id)

\* the request was answered pending and its job is polled while the worker
\* is still at work
C14_Witness ==
    /\ result # None
    /\ "job_id" \in DOMAIN Val(result)
    /\ Val(result).status = "pending"
    /\ get_status(Val(result).job_id).status = "processing"
    /\ get_status(Val(result).job_id).progress = 60

\* C15: when the VideoRecord of a request with a usable prompt cannot be
\* created, the job is recorded as failed, a terminal status, the answer
\* is failed and carries no video_id, and no worker thread is started.
C15_StorageInitFailure ==
    [][ (Handles /\ Submitted(Val(request')) /\ ~WhitespaceOnly(Val(request').prompt)
            /\ metadata' = metadata)
        => LET job_id == Val(result').job_id
           IN  /\ DOMAIN Val(result') = {"job_id", "status"}
               /\ Val(result').status = "failed"
               /\ job_id \notin DOMAIN generation_status
               /\ generation_status'[job_id].status = "failed"
               /\ generation_status'[job_id].error = <<"storage init failed">>
               /\ "video_id" \notin DOMAIN generation_status'[job_id]
               /\ threads' = threads ]_vars

\* a request with a usable prompt ended failed for the storage
C15_Witness ==
    /\ request # None
    /\ ~WhitespaceOnly(Val(request).prompt)
    /\ "job_id" \in DOMAIN Val(result)
    /\ \E j \in DOMAIN generation_status :
          /\ generation_status[j].status = "failed"
          /\ generation_status[j].error = <<"storage init failed">>
          /\ Val(result).job_id = j

\* C16 as stated: a job whose frame-persist step wrote no frame image, or
\* whose container file could not be assembled, never ends in completed: a
\* completed job has a frame image and its container file on disk.
C16_Original ==
    \A j \in DOMAIN threads :
        LET v == threads[j].video_id
        IN  (generation_status[j].status = "completed" /\ v \in DOMAIN files) =>
              /\ files[v].frames > 0
              /\ files[v].output

\* C17 as stated: in every state of the job table a completed or failed
\* job has elapsed_seconds set, and a job has an error exactly when it is
\* failed.
C17_Original ==
    \A j \in DOMAIN generation_status :
        /\ generation_status[j].status \in {"completed", "failed"} =>
              "elapsed_seconds" \in DOMAIN generation_status[j]
        /\ "error" \in DOMAIN generation_status[j]
              <=> generation_status[j].status = "failed"

\* C18: whatever job a poller asks for and whenever it asks, a record it
\* gets in status completed has progress 100 and the video_id of a video
\* that was given an id: completed is never seen with a lower progress.
C18_CompletedIsWhole ==
    \A j \in DOMAIN generation_status :
        LET polled == get_status(j)
        IN  ("status" \in DOMAIN polled /\ polled.status = "completed") =>
              /\ "progress" \in DOMAIN polled
              /\ polled.progress = 100
              /\ "video_id" \in DOMAIN polled
              /\ polled.video_id \in 1 .. uuids

\* a job that drew frames from the cloud is polled once completed
C18_Witness ==
    \E j \in DOMAIN threads :
        /\ get_status(j).status = "completed"
        /\ get_status(j).progress = 100
        /\ threads[j].requests # <<>>

\* C19 as stated: under any interleaving of the callers of the pipeline
\* cache, an instance inserted for a key is never replaced or removed, the
\* load is never performed again for a key that has an instance, and a call
\* that finds the key returns the cached instance.
C19_Original ==
    [][ /\ \A k \in DOMAIN pipeline_cache :
              /\ k \in DOMAIN pipeline_cache'
              /\ pipeline_cache'[k] = pipeline_cache[k]
        /\ pipeline_loads' # pipeline_loads =>
              pipeline_loads'[Len(pipeline_loads')] \notin DOMAIN pipeline_cache
        /\ \A c \in DOMAIN pipeline_calls :
              (pipeline_calls[c].pc = "check" /\ pipeline_calls'[c].pc = "returned") =>
                  pipeline_calls'[c].pipe = Some(pipeline_cache[pipeline_calls[c].cache_key])
      ]_vars

\* C20 as stated: under any interleaving of a download worker and its
\* progress sampler, the progress of a download never decreases from one
\* state to the next while its status is downloading.
C20_Original ==
    [][ \A d \in DOMAIN download_progress :
          (download_progress[d].status = "downloading"
              /\ download_progress'[d].status = "downloading")
          => download_progress'[d].progress >= download_progress[d].progress ]_vars

\* C21: a DownloadTask is marked completed only by the worker that is past
\* the verification, that is after the transfer returned and with at least
\* one file in the model directory, and the step gives it progress 100 and
\* downloaded equal to total; a transfer that returned with no file on disk
\* marks the task failed, and a failed task is never completed.
C21_CompletedAfterVerify ==
    [][ \A n \in DOMAIN downloads :
          LET th == downloads[n]
              before == download_progress[th.download_id]
              after == download_progress'[th.download_id]
          IN  /\ (before.status # "completed" /\ after.status = "completed")
                    => /\ th.pc = "complete"
                       /\ th.final_size >= 1
                       /\ model_sizes[th.repo_id] >= 1
                       /\ after.progress = 100
                       /\ after.downloaded = after.total
                       /\ after.total = th.final_size
              /\ (th.pc = "verify" /\ downloads'[n].pc # "verify"
                     /\ model_sizes[th.repo_id] = 0)
                    => /\ after.status = "failed"
                       /\ downloads'[n].pc = "done"
              /\ before.status = "failed" => after.status = "failed" ]_vars

\* a download was verified with a file on disk and marked completed
C21_Witness ==
    \E n \in DOMAIN downloads :
        /\ downloads[n].pc = "done"
        /\ downloads[n].final_size >= 1
        /\ download_progress[downloads[n].download_id].status = "completed"
        /\ download_progress[downloads[n].download_id].total >= 1

\* the categories of a download error, in the order of their priority
ErrorCategories == <<"authentication", "not-found", "network", "permission">>

\* the raw error text matches the category
MatchesCategory(msg, category) ==
    CASE category = "authentication" ->
            Contains(msg, "401") \/ Contains(msg, "Unauthorized")
      [] category = "not-found" ->
            Contains(msg, "404") \/ Contains(msg, "Not Found")
      [] category = "network" ->
            Contains(msg, "Connection") \/ Contains(msg, "timeout")
                \/ Contains(msg, "Timeout")
      [] category = "permission" ->
            Contains(msg, "Permission") \/ Contains(msg, "permission")

\* the category that the stored error text names
CategoryShown(error) ==
    IF error = <<>> THEN "unknown"
    ELSE CASE error[1] = "Authentication failed. Please check your Hugging Face token."
                -> "authentication"
           [] error[1] = "Model repository '" -> "not-found"
           [] error[1] = "Network connection error. Please check your internet connection."
                -> "network"
           [] error[1] = "Permission denied. Cannot write to " -> "permission"
           [] OTHER -> "unknown"

\* the earliest category in the order that the raw error text matches
FirstCategory(msg) ==
    IF \E i \in 1 .. Len(ErrorCategories) : MatchesCategory(msg, ErrorCategories[i])
    THEN ErrorCategories[
            CHOOSE i \in 1 .. Len(ErrorCategories) :
                /\ MatchesCategory(msg, ErrorCategories[i])
                /\ \A k \in 1 .. (i - 1) : ~MatchesCategory(msg, ErrorCategories[k])]
    ELSE "unknown"

\* C22: a download worker that ends otherwise than by completing leaves the
\* task failed with an error and a message stored; the stored error names
\* the earliest of authentication, not-found, network, permission that the
\* raw error text matches, and is the raw error text when it matches none.
C22_FailureClassified ==
    /\ [][ \A n \in DOMAIN downloads :
             (downloads[n].pc \notin {"complete", "done"} /\ downloads'[n].pc = "done")
                => LET after == download_progress'[downloads[n].download_id]
                   IN  /\ after.status = "failed"
                       /\ {"error", "message", "error_details"} \subseteq DOMAIN after
                       /\ after.message = <<"Download failed: ">> \o after.error ]_vars
    /\ [](\A d \in DOMAIN download_progress :
            LET task == download_progress[d]
            IN  task.status = "failed"
                => /\ {"error", "error_details"} \subseteq DOMAIN task
                   /\ CategoryShown(task.error) = FirstCategory(task.error_details)
                   /\ FirstCategory(task.error_details) = "unknown"
                         => task.error = task.error_details)

\* a download failed on an error that matches not-found and network, and is
\* shown as not-found
C22_Witness ==
    \E d \in DOMAIN download_progress :
        LET task == download_progress[d]
        IN  /\ task.status = "failed"
            /\ "error_details" \in DOMAIN task
            /\ MatchesCategory(task.error_details, "not-found")
            /\ MatchesCategory(task.error_details, "network")
            /\ ~MatchesCategory(task.error_details, "authentication")
            /\ CategoryShown(task.error) = "not-found"

\* the step is a lookup in the download table
IsLookup ==
    /\ dl_result' # None
    /\ "lookup" \in DOMAIN Val(dl_result')
    /\ (dl_result = None \/ DOMAIN Val(dl_result) # DOMAIN Val(dl_result')
           \/ dl_result' # dl_result)

\* the id of the task of the repo that was started last, if there is one
LastStarted(repo_id) ==
    LET started == { n \in DOMAIN downloads : downloads[n].repo_id = repo_id }
    IN  IF started = {} THEN None
        ELSE Some(downloads[CHOOSE n \in started : \A k \in started : k <= n].download_id)

\* C23: get_download_progress_by_repo returns the task of the model that was
\* started most recently, and nothing when no task of the model was started;
\* get_download_progress returns the task stored under the id or nothing;
\* neither lookup changes the download table.
C23_LookupMostRecent ==
    [][ IsLookup =>
          LET answer == Val(dl_result')
          IN  /\ download_progress' = download_progress
              /\ downloads' = downloads
              /\ answer.lookup = "repo_id"
                    => answer.progress = LastStarted(answer.key[1])
              /\ answer.lookup = "download_id"
                    => answer.progress =
                         IF answer.key \in DOMAIN download_progress
                         THEN Some(answer.key) ELSE None ]_vars

\* two tasks of one model started in consecutive milliseconds, the digits of
\* the clock carrying between them, and the lookup by model gave the second
C23_Witness ==
    /\ Len(downloads) = 2
    /\ downloads[1].repo_id = downloads[2].repo_id
    /\ downloads[1].download_id[2] = 1
    /\ downloads[2].download_id[2] = 2
    /\ dl_result # None
    /\ "lookup" \in DOMAIN Val(dl_result)
    /\ Val(dl_result).lookup = "repo_id"
    /\ Val(dl_result).key = <<downloads[2].repo_id>>
    /\ Val(dl_result).progress = Some(downloads[2].download_id)

\* C24 as stated: every call of start_download stores the new task under an
\* id that no task of the table has, and leaves every record of the table
\* as it was.
C24_Original ==
    [][ Len(downloads') = Len(downloads) + 1 =>
          LET did == downloads'[Len(downloads')].download_id
          IN  /\ did \notin DOMAIN download_progress
              /\ \A d \in DOMAIN download_progress :
                    download_progress'[d] = download_progress[d] ]_vars

\* the outcome of a post is a response with status 404
IsNotFound(post) == "status" \in DOMAIN post /\ post.status = 404

\* the outcome of a post is a successful response with video content
IsVideo(post) ==
    /\ "status" \in DOMAIN post
    /\ post.status = 200
    /\ post.ctype \in {"video/mp4", "application/octet-stream"}

\* the outcome of a post is a response whose status is neither 2xx nor 404
IsHardStatus(post) ==
    "status" \in DOMAIN post /\ post.status # 404 /\ ~InRange(post.status, 200, 299)

\* C25: the Cloud backend posts to the router root endpoint first and to the
\* model endpoint only after a 404 from the first, never more than twice; a
\* video response gives the video bytes, a second 404 fails the attempt, and
\* a response that is neither 2xx nor 404 fails it with no further request.
C25_RootThenModel ==
    /\ [](\A j \in DOMAIN threads :
            LET th == threads[j]
            IN  /\ th.requests \in { <<>>, <<"root">>, <<"root", "models">> }
                /\ Len(th.responses) <= Len(th.requests)
                /\ Len(th.requests) = 2
                      => Len(th.responses) >= 1 /\ IsNotFound(th.responses[1]))
    /\ [][ \A j \in DOMAIN threads :
             Len(threads'[j].responses) = Len(threads[j].responses) + 1
                => LET th == threads'[j]
                       post == th.responses[Len(th.responses)]
                   IN  /\ IsVideo(post) => th.pc = "video_bytes"
                       /\ (IsNotFound(post) /\ Len(th.responses) = 1)
                             => th.pc = "hf_models" /\ th.requests = <<"root", "models">>
                       /\ (IsNotFound(post) /\ Len(th.responses) = 2)
                             => /\ th.pc = "done"
                                /\ generation_status'[j].status = "failed"
                       /\ IsHardStatus(post)
                             => /\ th.pc = "done"
                                /\ th.requests = threads[j].requests
                                /\ generation_status'[j].status = "failed" ]_vars

\* a job got 404 from the root endpoint and a video from the model endpoint
C25_Witness ==
    \E j \in DOMAIN threads :
        /\ threads[j].requests = <<"root", "models">>
        /\ Len(threads[j].responses) = 2
        /\ IsNotFound(threads[j].responses[1])
        /\ IsVideo(threads[j].responses[2])
        /\ threads[j].pc = "video_bytes"

\* the outcome of a post is a response whose JSON body carries an error
HasJsonError(post) == "error" \in DOMAIN post /\ post.error # None

\* C26 as stated: a response whose body is a JSON object carrying an error
\* fails the Cloud attempt whatever its status code: no request follows it,
\* and the error of the job carries the provider's error text.
C26_Original ==
    [][ \A j \in DOMAIN threads :
          Len(threads'[j].responses) = Len(threads[j].responses) + 1
             => LET th == threads'[j]
                    post == th.responses[Len(th.responses)]
                IN  HasJsonError(post)
                       => /\ th.requests = threads[j].requests
                          /\ th.pc = "done"
                          /\ generation_status'[j].status = "failed"
                          /\ \E i \in 1 .. Len(generation_status'[j].error) :
                                generation_status'[j].error[i] = post.text ]_vars

\* the value is an RGB image of 8-bit pixels: three channels for each point
WellFormedImage(img) ==
    /\ DOMAIN img = {"mode", "size", "pixels"}
    /\ img.mode = "RGB"
    /\ Len(img.size) = 2
    /\ img.size[1] >= 1 /\ img.size[2] >= 1
    /\ Len(img.pixels) = img.size[1] * img.size[2] * 3
    /\ \A n \in DOMAIN img.pixels : img.pixels[n] \in 0 .. 255

\* the call of _ensure_pil_image on an array has ended
Normalized == frame # None /\ image # None /\ ~IsImage(Val(frame))

\* C27: for an input array of any rank, _ensure_pil_image either returns an
\* image of rank 3 with exactly 3 channels of 8-bit values, or fails with a
\* diagnostic that names the shape and the element type of the input.
C27_NeverMalformed ==
    Normalized =>
        LET out == Val(image)
        IN  \/ /\ out.kind = "return"
               /\ WellFormedImage(out.value)
            \/ /\ out.kind = "raise"
               /\ {"Shape", "Dtype"} \subseteq DOMAIN out.error
               /\ out.error.Shape = Val(frame).shape
               /\ out.error.Dtype = Val(frame).dtype

\* an array of rank 5 with two channels was refused with the diagnostic
C27_Witness ==
    /\ Normalized
    /\ Len(Val(frame).shape) = 5
    /\ Val(frame).shape[5] = 2
    /\ \A n \in 1 .. 4 : Val(frame).shape[n] = 2
    /\ Val(image).kind = "raise"
    /\ "Shape" \in DOMAIN Val(image).error

\* the frame is an 8-bit array (H, W, 3)
Canonical(f) ==
    ~IsImage(f) /\ f.dtype = "uint8" /\ Len(f.shape) = 3 /\ f.shape[3] = 3

\* C28 as stated: for every 8-bit array of shape (H, W, 3) with H, W >= 1
\* the normalized image has the height, the width and the pixel values of
\* the input.
C28_Original ==
    (Normalized /\ Canonical(Val(frame)))
        => /\ Val(image).kind = "return"
           /\ Val(image).value.size = <<Val(frame).shape[2], Val(frame).shape[1]>>
           /\ Val(image).value.pixels = Val(frame).data

\* the frame is an 8-bit array of rank 3 whose first axis is c: channel-first
ChannelFirst(f, c) ==
    ~IsImage(f) /\ f.dtype = "uint8" /\ Len(f.shape) = 3 /\ f.shape[1] = c

\* the channel-last transpose (H, W, C) of a channel-first array (C, H, W)
ChannelLast(f) ==
    [ dtype |-> f.dtype, shape |-> <<f.shape[2], f.shape[3], f.shape[1]>>,
      data |-> [ n \in 1 .. Size(f.shape) |->
                   LET k == (n - 1) % f.shape[1]
                       j == ((n - 1) \div f.shape[1]) % f.shape[3]
                       i == (n - 1) \div (f.shape[1] * f.shape[3])
                   IN  f.data[(((k * f.shape[2]) + i) * f.shape[3]) + j + 1] ] ]

\* C29 as stated: for every frame with 1, 3 or 4 channels and every height
\* and width, the channel-first array (C, H, W) and its channel-last
\* transpose (H, W, C) normalize to the same image, of size H x W.
C29_Original ==
    (Normalized /\ \E c \in {1, 3, 4} : ChannelFirst(Val(frame), c))
        => LET other == ensure_pil_image(ChannelLast(Val(frame)))
           IN  /\ Val(image).kind = "return"
               /\ other.kind = "return"
               /\ Val(image).value = other.value
               /\ Val(image).value.size = <<Val(frame).shape[3], Val(frame).shape[2]>>

\* the frame is a float array with every element in [-1, 1]
SignedRange(f) ==
    /\ ~IsImage(f)
    /\ f.dtype = "float32"
    /\ \A n \in DOMAIN f.data : -FloatUnit <= f.data[n] /\ f.data[n] <= FloatUnit

\* the [0, 1] equivalent (x + 1) / 2 of an array whose elements are whole
\* halves
Equivalent(f) ==
    [f EXCEPT !.data = [ n \in DOMAIN f.data |-> (f.data[n] + FloatUnit) \div 2 ]]

\* C30 as stated: for every float array x with all values in [-1, 1],
\* normalizing x gives the same 8-bit output as normalizing (x + 1) / 2.
C30_Original ==
    (Normalized /\ SignedRange(Val(frame)))
        => Val(image) = ensure_pil_image(Equivalent(Val(frame)))

\* the stride the sentence names: 1, or an integer nearest to src / tgt
IsStride(s, src, tgt) ==
    \E r \in 0 .. src :
        /\ 2 * (IF r * tgt >= src THEN r * tgt - src ELSE src - r * tgt) <= tgt
        /\ s = IF r < 1 THEN 1 ELSE r

\* the decoded indices 0, s, 2s, ... below n, under the names 0, 1, 2, ...
Strided(n, s) == [k \in 1 .. ((n + s - 1) \div s) |-> Some((k - 1) * s)]

\* an extraction that ended, of a container that opened and whose rate, as
\* the target rate, is known
Ended(e) ==
    /\ e.names # None
    /\ e.video.opened
    /\ e.video.cap_fps # 0
    /\ e.fps # 0

\* every write of the extraction left its file
Extracted(e) ==
    /\ Ended(e)
    /\ \A idx \in DOMAIN e.video.outcome : e.video.outcome[idx] = "written"

\* what the sentence says of the images of one extraction
StridedExactly(e) ==
    LET n == e.video.frames
    IN  /\ \E s \in 1 .. (e.video.cap_fps + 1) :
              /\ IsStride(s, e.video.cap_fps, e.fps)
              /\ Val(e.names) = Strided(n, s)
        /\ e.video.cap_fps = e.fps =>
              Val(e.names) = [k \in 1 .. n |-> Some(k - 1)]
        /\ e.video.cap_fps = 2 * e.fps =>
              2 * Len(Val(e.names)) \in {n, n + 1}

Deletes(v) ==
    /\ request' = Some([delete |-> v])
    /\ \/ request' # request
       \/ result' # result
       \/ v \in DOMAIN metadata /\ v \notin DOMAIN metadata'

\* the call of the step answered success
DeleteSucceeded == "ok" \in DOMAIN Val(result')

\* C32 as stated: delete_video is all-or-nothing. After a success the
\* VideoRecord and the artifact directory are both gone; after a failure
\* the record and the directory are as they were before the call.
C32_Original ==
    [][\A v \in 1 .. uuids :
          Deletes(v) =>
             IF DeleteSucceeded
             THEN v \notin DOMAIN metadata' /\ v \notin DOMAIN files'
             ELSE /\ (v \in DOMAIN metadata') = (v \in DOMAIN metadata)
                  /\ (v \in DOMAIN files') = (v \in DOMAIN files)]_vars

\* the step is the frame-persist or the extract step of the worker of job_id:
\* the calls of _create_thumbnail a worker makes
AttemptsThumbnail(job_id) ==
    /\ job_id \in DOMAIN threads
    /\ \/ threads[job_id].pc = "save_frames" /\ threads'[job_id].pc = "finish"
       \/ threads[job_id].pc = "extract" /\ threads'[job_id].pc = "count"

\* C33 as stated: a video for which a worker attempted the thumbnail is not
\* left without a thumbnail file: when the first frame gives none, the gray
\* placeholder is stored instead.
C33_Original ==
    [][\A job_id \in JobIds :
          AttemptsThumbnail(job_id) =>
             LET v == threads[job_id].video_id
             IN  v \in DOMAIN files' /\ files'[v].thumbnail]_vars

\* the step writes the job-status table as one update for the job a does:
\* the record of a keeps every field it had, gaining or changing some; the
\* record of every other job is what it was; no record leaves the table
MergesInto(a) ==
    /\ DOMAIN generation_status' = DOMAIN generation_status \cup {a}
    /\ \A b \in DOMAIN generation_status \ {a} :
          generation_status'[b] = generation_status[b]
    /\ a \in DOMAIN generation_status =>
          /\ DOMAIN generation_status[a] \subseteq DOMAIN generation_status'[a]
          /\ \A k \in {"video_id"} \cap DOMAIN generation_status[a] :
                generation_status'[a][k] = generation_status[a][k]

GotVideoBytes(th) ==
    /\ th.responses # <<>>
    /\ IsVideo(th.responses[Len(th.responses)])

\* C35: a worker whose Cloud backend returned raw video bytes extracts only
\* from a saved container file, and when it has returned: if the bytes were
\* saved the job is completed and the VideoRecord's frame count is the number
\* of frame images in the video directory; if they could not be saved the job
\* is failed with that error and no frame is counted.
C35_CloudBytesCounted ==
    \A j \in DOMAIN threads :
        LET th == threads[j]
            v == th.video_id
        IN  GotVideoBytes(th) =>
              /\ th.pc \in {"extract_begin", "extract", "count", "finish"} =>
                    v \in DOMAIN files /\ files[v].output
              /\ th.pc = "done" =>
                    /\ v \in DOMAIN files /\ v \in DOMAIN metadata
                    /\ IF files[v].output
                       THEN /\ generation_status[j].status = "completed"
                            /\ metadata[v].frame_count = files[v].frames
                       ELSE /\ generation_status[j].status = "failed"
                            /\ "error" \in DOMAIN generation_status[j]
                            /\ generation_status[j].error =
                                  <<"Failed to save video file from HF response">>
                            /\ metadata[v].frame_count = 0
                            /\ files[v].frames = 0

\* a completed job whose frames were extracted from the saved cloud video
C35_Witness ==
    \E j \in DOMAIN threads :
        /\ GotVideoBytes(threads[j])
        /\ threads[j].pc = "done"
        /\ generation_status[j].status = "completed"
        /\ files[threads[j].video_id].output
        /\ files[threads[j].video_id].frames > 0
        /\ metadata[threads[j].video_id].frame_count = files[threads[j].video_id].frames

\* C36: one generation calls the loaded pipeline at most twice. The first
\* call carries the frame count; there is a second call only after the first
\* raised TypeError, and it carries every argument of the first but the frame
\* count. A failure of the second call, or a failure of the first that is not
\* a TypeError, leaves generate_local_video as its error with no further call.
C36_RetryOnceWithoutFrames ==
    local_call # None =>
        LET c == Val(local_call)
            n == Len(c.invocations)
        IN  /\ n <= 2
            /\ Len(c.outcomes) = n
            /\ n >= 1 => "num_frames" \in DOMAIN c.invocations[1]
            /\ n = 2 =>
                  /\ c.outcomes[1].kind = "raise"
                  /\ c.outcomes[1].type = "TypeError"
                  /\ DOMAIN c.invocations[2] = DOMAIN c.invocations[1] \ {"num_frames"}
                  /\ \A k \in DOMAIN c.invocations[2] :
                        c.invocations[2][k] = c.invocations[1][k]
            /\ (n = 1 /\ c.outcomes[1].kind = "raise" /\ c.outcomes[1].type # "TypeError") =>
                  c.pc = "raised" /\ c.out = Some(c.outcomes[1])
            /\ (n = 2 /\ c.outcomes[2].kind = "raise") =>
                  c.pc = "raised" /\ c.out = Some(c.outcomes[2])
            /\ c.pc = "frames" => c.out = Some(c.outcomes[n]) /\ c.outcomes[n].kind = "return"
            /\ c.pc = "raised" => n >= 1 /\ c.outcomes[n].kind = "raise"

\* a pipeline that rejected the frame count, was called again without it with
\* the seeded generator and the other arguments, and returned frames
C36_Witness ==
    /\ local_call # None
    /\ Val(local_call).pc = "frames"
    /\ Len(Val(local_call).invocations) = 2
    /\ Val(local_call).outcomes[1].type = "TypeError"
    /\ Val(local_call).invocations[1].num_frames = 48
    /\ "generator" \in DOMAIN Val(local_call).invocations[2]
    /\ "num_frames" \notin DOMAIN Val(local_call).invocations[2]

\* the worker has returned from a job with a local model selector and cloud
\* fallback whose Local attempt raised
FellBackToCloud(th) ==
    /\ th.pc = "done"
    /\ HasSelector(th)
    /\ th.use_hf_api
    /\ th.local_error # None

\* an error the Cloud attempt of the worker ends in: the token check, a
\* request that raised, a response that is an error, or the save of the bytes
IsCloudError(th, error) ==
    \/ error = <<"Invalid Hugging Face API token">>
    \/ error = <<"Failed to save video file from HF response">>
    \/ error = <<"HF API error: 404: Not Found (both router root and model endpoints)">>
    \/ \E i \in DOMAIN th.responses :
          \/ "exception" \in DOMAIN th.responses[i]
                /\ error = <<th.responses[i].exception>>
          \/ "status" \in DOMAIN th.responses[i]
                /\ Len(error) = 4
                /\ error[1] = "HF API error: "
                /\ error[2] = ToString(th.responses[i].status)

\* C37: in a job with a local model selector and cloud fallback whose Local
\* attempt failed, once the worker has returned: if the Cloud attempt gave a
\* saved video the job is completed and its record carries no error, the
\* local one included; otherwise the job is failed and its error is the
\* error of the Cloud attempt, not the local error.
C37_CloudOutcomeDecides ==
    \A j \in DOMAIN threads :
        LET th == threads[j]
            v == th.video_id
            rec == generation_status[j]
        IN  FellBackToCloud(th) =>
              /\ th.backends = <<"local", "cloud">>
              /\ IF GotVideoBytes(th) /\ v \in DOMAIN files /\ files[v].output
                 THEN /\ rec.status = "completed"
                      /\ "error" \notin DOMAIN rec
                      /\ rec.message = "Completed"
                 ELSE /\ rec.status = "failed"
                      /\ "error" \in DOMAIN rec
                      /\ IsCloudError(th, rec.error)
                      /\ rec.error # Val(th.local_error)

\* the Local attempt raised its message, the Cloud attempt was answered by
\* an error response, and the job failed with the latter
C37_Witness ==
    \E j \in DOMAIN threads :
        /\ FellBackToCloud(threads[j])
        /\ Val(threads[j].local_error) # <<>>
        /\ threads[j].responses # <<>>
        /\ generation_status[j].status = "failed"
        /\ generation_status[j].error # Val(threads[j].local_error)
        /\ generation_status[j].error[1] = "HF API error: "

\* C38 as stated: the record of a DownloadTask that has reached completed or
\* failed is never modified again, whatever the download worker and the
\* progress sampler do: a completed task keeps progress 100 and its
\* completion message, a failed task keeps progress 0 and its error message.
C38_Original ==
    [][\A d \in DOMAIN download_progress :
          download_progress[d].status \in {"completed", "failed"} =>
             /\ d \in DOMAIN download_progress'
             /\ download_progress'[d] = download_progress[d]]_vars

\* C39 as stated: a model counts as present in local storage only when its
\* acquisition has finished: while a DownloadTask for it is downloading, or
\* has failed, is_downloaded reports false for its model.
C39_Original ==
    \A n \in DOMAIN downloads :
        LET d == downloads[n].download_id
        IN  (d \in DOMAIN download_progress
               /\ download_progress[d].status \in {"downloading", "failed"})
            => ~is_downloaded(downloads[n].repo_id)

\* C40 as stated: once delete_video has succeeded for the video of a job, so
\* that its directory is gone, no step brings a directory or a frame file of
\* that video back; and no step marks a job completed whose video_id has no
\* VideoRecord.
C40_Original ==
    [][\A j \in DOMAIN threads :
          LET v == threads[j].video_id
          IN  /\ v \notin DOMAIN files => v \notin DOMAIN files'
              /\ (generation_status[j].status # "completed"
                    /\ generation_status'[j].status = "completed")
                 => v \in DOMAIN metadata']_vars

====
